---- MODULE Spec2Model ----
(***************************************************************************)
(* Test-relevance analysis of the Dynamic Test Identifier and Runner.      *)
(*                                                                         *)
(* The model follows TestAnalysisService (background/services) as it is    *)
(* driven by BackgroundController.handleAnalyzePR.  JavaScript strings are *)
(* sequences of one-character strings, so that includes, endsWith, split,  *)
(* replace and RegExp.test are computed character by character.            *)
(***************************************************************************)
EXTENDS Integers, Sequences, FiniteSets, TLC

VARIABLES pc, prData, analysis, history, config

\* The locals of TestAnalyzer.analyzeTests
VARIABLES codeChanges, repoStructure, existingTestFiles

analyzerVars == <<codeChanges, repoStructure, existingTestFiles>>

\* BackgroundController with several messages in flight: the handlers'
\* locals, the service instances, chrome.storage.sync with the cache
\* StorageManager keeps of it, and the clock
VARIABLES requests, services, storage, clock

controllerVars == <<requests, services, storage, clock>>

\* The locals of the one handler that runs when requests come one at a time
sequentialVars == <<pc, prData, analysis>>

\* TestAnalyzer.monitorBuild: its counter, its pending timer and what it
\* has done so far
VARIABLES monitor

vars == <<pc, prData, analysis, history, config, analyzerVars, controllerVars, monitor>>

----------------------------------------------------------------------------
(* JavaScript string primitives used by the service                        *)

\* String.prototype.includes
Includes(s, t) ==
    \E i \in 1..(Len(s) + 1) : i + Len(t) - 1 <= Len(s) /\ SubSeq(s, i, i + Len(t) - 1) = t

\* String.prototype.endsWith
EndsWith(s, t) ==
    Len(t) <= Len(s) /\ SubSeq(s, Len(s) - Len(t) + 1, Len(s)) = t

UpperCase == <<"A","B","C","D","E","F","G","H","I","J","K","L","M","N","O","P","Q","R","S","T","U","V","W","X","Y","Z">>
LowerCase == <<"a","b","c","d","e","f","g","h","i","j","k","l","m","n","o","p","q","r","s","t","u","v","w","x","y","z">>

\* String.prototype.toLowerCase (ASCII letters)
ToLowerCase(s) ==
    [i \in 1..Len(s) |->
        IF \E k \in 1..26 : UpperCase[k] = s[i]
        THEN LowerCase[CHOOSE k \in 1..26 : UpperCase[k] = s[i]]
        ELSE s[i]]

\* String.prototype.split with a one-character separator
RECURSIVE Split(_, _)
Split(s, sep) ==
    IF \A i \in 1..Len(s) : s[i] # sep
    THEN <<s>>
    ELSE LET i == CHOOSE k \in 1..Len(s) : s[k] = sep /\ \A j \in 1..(k - 1) : s[j] # sep
         IN  <<SubSeq(s, 1, i - 1)>> \o Split(SubSeq(s, i + 1, Len(s)), sep)

\* Array.prototype.join
RECURSIVE Join(_, _)
Join(parts, sep) ==
    IF Len(parts) = 0 THEN <<>>
    ELSE IF Len(parts) = 1 THEN parts[1]
    ELSE parts[1] \o sep \o Join(Tail(parts), sep)

\* String.prototype.replace with a global pattern that matches the literal
\* text from: every non-overlapping occurrence, left to right, becomes to
RECURSIVE ReplaceAll(_, _, _)
ReplaceAll(s, from, to) ==
    IF Len(s) < Len(from) THEN s
    ELSE IF SubSeq(s, 1, Len(from)) = from
         THEN to \o ReplaceAll(SubSeq(s, Len(from) + 1, Len(s)), from, to)
         ELSE <<s[1]>> \o ReplaceAll(Tail(s), from, to)

----------------------------------------------------------------------------
(* Regular expressions: the fragment the glob conversion can produce.      *)
(* A source text is read as the tokens  \c  (the character c),  [^/]*      *)
(* (any run without a slash),  .*  (any run),  .  (any character) and any  *)
(* other character standing for itself.                                    *)

NotSlashStar == <<"[","^","/","]","*">>

RECURSIVE RegexTokens(_)
RegexTokens(src) ==
    IF Len(src) = 0 THEN <<>>
    ELSE IF src[1] = "\\" /\ Len(src) >= 2
         THEN <<[kind |-> "char", c |-> src[2]]>> \o RegexTokens(SubSeq(src, 3, Len(src)))
    ELSE IF Len(src) >= 5 /\ SubSeq(src, 1, 5) = NotSlashStar
         THEN <<[kind |-> "notSlashStar", c |-> "/"]>> \o RegexTokens(SubSeq(src, 6, Len(src)))
    ELSE IF src[1] = "." /\ Len(src) >= 2 /\ src[2] = "*"
         THEN <<[kind |-> "anyStar", c |-> "."]>> \o RegexTokens(SubSeq(src, 3, Len(src)))
    ELSE IF src[1] = "."
         THEN <<[kind |-> "any", c |-> "."]>> \o RegexTokens(Tail(src))
    ELSE <<[kind |-> "char", c |-> src[1]]>> \o RegexTokens(Tail(src))

\* Whether tokens i.. match s from position j on; when anchored the match
\* must use up s
RECURSIVE MatchHere(_, _, _, _, _)
MatchHere(toks, i, s, j, anchoredEnd) ==
    IF i > Len(toks) THEN (~anchoredEnd) \/ j = Len(s) + 1
    ELSE CASE toks[i].kind = "char" ->
                 j <= Len(s) /\ s[j] = toks[i].c /\ MatchHere(toks, i + 1, s, j + 1, anchoredEnd)
           [] toks[i].kind = "any" ->
                 j <= Len(s) /\ MatchHere(toks, i + 1, s, j + 1, anchoredEnd)
           [] toks[i].kind = "notSlashStar" ->
                 \E k \in j..(Len(s) + 1) :
                     /\ \A m \in j..(k - 1) : s[m] # "/"
                     /\ MatchHere(toks, i + 1, s, k, anchoredEnd)
           [] toks[i].kind = "anyStar" ->
                 \E k \in j..(Len(s) + 1) : MatchHere(toks, i + 1, s, k, anchoredEnd)

\* RegExp.prototype.test for a regex without flags: a match may start anywhere
\* unless the source is anchored by the caller
RegexTest(regex, s) ==
    LET toks == RegexTokens(regex.source)
    IN  IF regex.anchored
        THEN MatchHere(toks, 1, s, 1, TRUE)
        ELSE \E j \in 1..(Len(s) + 1) : MatchHere(toks, 1, s, j, FALSE)

----------------------------------------------------------------------------
(* shared/constants/patterns.js                                             *)

\* TEST_PATTERNS, in the order of the object literal
TEST_PATTERNS ==
    <<[language   |-> "javascript",
        extensions |-> <<<<"j","s">>, <<"j","s","x">>, <<"m","j","s">>>>,
        patterns   |-> <<<<"*","*","/","*",".","t","e","s","t",".","j","s">>,
                        <<"*","*","/","*",".","s","p","e","c",".","j","s">>,
                        <<"*","*","/","t","e","s","t","/","*","*","/","*",".","j","s">>,
                        <<"*","*","/","t","e","s","t","s","/","*","*","/","*",".","j","s">>,
                        <<"*","*","/","_","_","t","e","s","t","s","_","_","/","*","*","/","*",".","j","s">>>>],
       [language   |-> "typescript",
        extensions |-> <<<<"t","s">>, <<"t","s","x">>>>,
        patterns   |-> <<<<"*","*","/","*",".","t","e","s","t",".","t","s">>,
                        <<"*","*","/","*",".","s","p","e","c",".","t","s">>,
                        <<"*","*","/","t","e","s","t","/","*","*","/","*",".","t","s">>,
                        <<"*","*","/","t","e","s","t","s","/","*","*","/","*",".","t","s">>,
                        <<"*","*","/","_","_","t","e","s","t","s","_","_","/","*","*","/","*",".","t","s">>>>],
       [language   |-> "python",
        extensions |-> <<<<"p","y">>>>,
        patterns   |-> <<<<"*","*","/","t","e","s","t","_","*",".","p","y">>,
                        <<"*","*","/","*","_","t","e","s","t",".","p","y">>,
                        <<"*","*","/","t","e","s","t","s","/","*","*","/","*",".","p","y">>,
                        <<"*","*","/","t","e","s","t","/","*","*","/","*",".","p","y">>>>],
       [language   |-> "java",
        extensions |-> <<<<"j","a","v","a">>>>,
        patterns   |-> <<<<"*","*","/","s","r","c","/","t","e","s","t","/","*","*","/","*",".","j","a","v","a">>,
                        <<"*","*","/","*","T","e","s","t",".","j","a","v","a">>,
                        <<"*","*","/","*","T","e","s","t","s",".","j","a","v","a">>,
                        <<"*","*","/","t","e","s","t","/","*","*","/","*",".","j","a","v","a">>>>],
       [language   |-> "csharp",
        extensions |-> <<<<"c","s">>>>,
        patterns   |-> <<<<"*","*","/","*",".","T","e","s","t",".","c","s">>,
                        <<"*","*","/","*",".","T","e","s","t","s",".","c","s">>,
                        <<"*","*","/","t","e","s","t","/","*","*","/","*",".","c","s">>,
                        <<"*","*","/","t","e","s","t","s","/","*","*","/","*",".","c","s">>>>],
       [language   |-> "go",
        extensions |-> <<<<"g","o">>>>,
        patterns   |-> <<<<"*","*","/","*","_","t","e","s","t",".","g","o">>>>],
       [language   |-> "php",
        extensions |-> <<<<"p","h","p">>>>,
        patterns   |-> <<<<"*","*","/","t","e","s","t","s","/","*","*","/","*",".","p","h","p">>,
                        <<"*","*","/","*","T","e","s","t",".","p","h","p">>,
                        <<"*","*","/","t","e","s","t","/","*","*","/","*",".","p","h","p">>>>],
       [language   |-> "ruby",
        extensions |-> <<<<"r","b">>>>,
        patterns   |-> <<<<"*","*","/","s","p","e","c","/","*","*","/","*",".","r","b">>,
                        <<"*","*","/","*","_","s","p","e","c",".","r","b">>,
                        <<"*","*","/","t","e","s","t","/","*","*","/","*",".","r","b">>,
                        <<"*","*","/","*","_","t","e","s","t",".","r","b">>>>],
       [language   |-> "rust",
        extensions |-> <<<<"r","s">>>>,
        patterns   |-> <<<<"*","*","/","t","e","s","t","s","/","*","*","/","*",".","r","s">>,
                        <<"*","*","/","*","_","t","e","s","t",".","r","s">>>>],
       [language   |-> "kotlin",
        extensions |-> <<<<"k","t">>, <<"k","t","s">>>>,
        patterns   |-> <<<<"*","*","/","s","r","c","/","t","e","s","t","/","*","*","/","*",".","k","t">>,
                        <<"*","*","/","*","T","e","s","t",".","k","t">>,
                        <<"*","*","/","*","T","e","s","t","s",".","k","t">>>>]>>

----------------------------------------------------------------------------
(* Changed files as the VCS fetchers hand them over (GitService.fetchPRData) *)

\* A GitHub pull-request file: changes is additions + deletions
\* The paths a pull request of the model can touch
Filenames ==
    { <<"s","r","c","/","a",".","j","s">>, <<"s","r","c","/","a",".","t","e","s","t",".","j","s">>, <<"s","r","c","/","a",".","s","p","e","c",".","j","s">>, <<"s","r","c","/","b",".","j","s">>,
      <<"s","r","c","/","u","s","e","r",".","j","s">>, <<"s","r","c","/","u","s","e","r",".","t","e","s","t",".","j","s">>, <<"s","r","c","/","U","s","e","r","T","e","s","t",".","j","a","v","a">>,
      <<"v","e","n","d","o","r","/","l","i","b","/","t","e","s","t","_","h","e","l","p","e","r",".","j","s">>, <<"v","e","n","d","o","r","/","l","i","b","/","u","t","i","l",".","j","s">>,
      <<".","g","i","t","h","u","b","/","b",".","t","e","s","t",".","j","s">>, <<"R","E","A","D","M","E",".","m","d">>,
      <<"s","r","c","/","p","a","r","s","e","r",".","c">>, <<"i","n","d","e","x",".","j","s">>, <<".",".","/","l","i","b","/","a",".","j","s">>, <<>> }

\* The added and deleted line counts the GitHub API reports for each path
LineCounts ==
    [filename \in Filenames |->
        CASE filename = <<"s","r","c","/","a",".","j","s">>                  -> [additions |-> 80,  deletions |-> 0]
          [] filename = <<"s","r","c","/","a",".","t","e","s","t",".","j","s">>             -> [additions |-> 5,   deletions |-> 0]
          [] filename = <<"s","r","c","/","a",".","s","p","e","c",".","j","s">>             -> [additions |-> 0,   deletions |-> 0]
          [] filename = <<"s","r","c","/","b",".","j","s">>                  -> [additions |-> 120, deletions |-> 30]
          [] filename = <<"s","r","c","/","u","s","e","r",".","j","s">>               -> [additions |-> 10,  deletions |-> 2]
          [] filename = <<"s","r","c","/","u","s","e","r",".","t","e","s","t",".","j","s">>          -> [additions |-> 30,  deletions |-> 25]
          [] filename = <<"s","r","c","/","U","s","e","r","T","e","s","t",".","j","a","v","a">>         -> [additions |-> 40,  deletions |-> 20]
          [] filename = <<"v","e","n","d","o","r","/","l","i","b","/","t","e","s","t","_","h","e","l","p","e","r",".","j","s">> -> [additions |-> 3,   deletions |-> 1]
          [] filename = <<"v","e","n","d","o","r","/","l","i","b","/","u","t","i","l",".","j","s">>        -> [additions |-> 7,   deletions |-> 7]
          [] filename = <<".","g","i","t","h","u","b","/","b",".","t","e","s","t",".","j","s">>         -> [additions |-> 12,  deletions |-> 0]
          [] filename = <<"s","r","c","/","p","a","r","s","e","r",".","c">>              -> [additions |-> 60,  deletions |-> 0]
          [] filename = <<"i","n","d","e","x",".","j","s">>                  -> [additions |-> 4,   deletions |-> 1]
          [] filename = <<".",".","/","l","i","b","/","a",".","j","s">>               -> [additions |-> 9,   deletions |-> 9]
          [] OTHER                                    -> [additions |-> 2,   deletions |-> 2]]

\* files.map(file => ({ filename, status, additions, deletions, changes, patch }))
\* (GitHub reports changes = additions + deletions; the patch text is left out)
GitHubFile(filename) ==
    [filename  |-> filename,
     status    |-> "modified",
     additions |-> LineCounts[filename].additions,
     deletions |-> LineCounts[filename].deletions,
     changes   |-> LineCounts[filename].additions + LineCounts[filename].deletions]

\* A file parsed out of a Bitbucket diff carries no line counts
BitbucketFile(filename) == [filename |-> filename, status |-> "modified"]

\* The platforms of the model's pull requests
Platforms == { "github", "bitbucket" }

\* All lists of at most n distinct paths; a pull request names a path once
RECURSIVE FileLists(_)
FileLists(n) ==
    IF n = 0 THEN { <<>> }
    ELSE FileLists(n - 1) \cup
         { Append(lf[1], lf[2]) :
             lf \in { p \in FileLists(n - 1) \X Filenames :
                        /\ Len(p[1]) = n - 1
                        /\ \A i \in 1..Len(p[1]) : p[1][i] # p[2] } }

\* The changedFiles of the pull request with the given paths
changedFilesOf(platform, paths) ==
    [i \in 1..Len(paths) |->
        IF platform = "github" THEN GitHubFile(paths[i]) ELSE BitbucketFile(paths[i])]

\* file.<field> || 0
OrZero(file, field) == IF field \in DOMAIN file THEN file[field] ELSE 0

----------------------------------------------------------------------------
(* TestAnalysisService (background/services)                               *)

\* pattern.replace(/\*\*/g, '.*').replace(/\*/g, '[^/]*').replace(/\./g, '\\.')
\* compiled without anchors and without flags
_globToRegex(pattern) ==
    [source   |-> ReplaceAll(ReplaceAll(ReplaceAll(pattern, <<"*","*">>, <<".","*">>), <<"*">>, <<"[","^","/","]","*">>),
                             <<".">>, <<"\\",".">>),
     anchored |-> FALSE]

\* The loop over every language's patterns: some compiled pattern accepts
MatchesTestPattern(filename) ==
    \E l \in 1..Len(TEST_PATTERNS) :
        \E p \in 1..Len(TEST_PATTERNS[l].patterns) :
            RegexTest(_globToRegex(TEST_PATTERNS[l].patterns[p]), filename)

\* The "common test indicators" the function falls back to
HasTestIndicator(lowerFilename) ==
    \/ Includes(lowerFilename, <<"t","e","s","t">>)
    \/ Includes(lowerFilename, <<"s","p","e","c">>)
    \/ Includes(lowerFilename, <<"_","_","t","e","s","t","s","_","_">>)

_isTestFile(filename) ==
    IF MatchesTestPattern(filename) THEN TRUE
    ELSE HasTestIndicator(ToLowerCase(filename))

codeExtensions ==
    { <<".","j","s">>, <<".","j","s","x">>, <<".","t","s">>, <<".","t","s","x">>, <<".","p","y">>, <<".","j","a","v","a">>, <<".","c","s">>,
      <<".","g","o">>, <<".","p","h","p">>, <<".","r","b">>, <<".","r","s">>, <<".","k","t">>, <<".","c","p","p">>, <<".","c">>, <<".","h">> }

ignoredPaths ==
    { <<"n","o","d","e","_","m","o","d","u","l","e","s">>, <<"v","e","n","d","o","r">>, <<"d","i","s","t">>, <<"b","u","i","l","d">>, <<".","g","i","t">>,
      <<"p","a","c","k","a","g","e","-","l","o","c","k",".","j","s","o","n">>, <<"y","a","r","n",".","l","o","c","k">> }

_isCodeFile(filename) ==
    IF \E ignored \in ignoredPaths : Includes(filename, ignored)
    THEN FALSE
    ELSE \E ext \in codeExtensions : EndsWith(filename, ext)

_detectLanguage(filename) ==
    LET pieces == Split(filename, ".")
        ext    == ToLowerCase(pieces[Len(pieces)])
        has(l) == \E e \in 1..Len(TEST_PATTERNS[l].extensions) : TEST_PATTERNS[l].extensions[e] = ext
    IN  IF \E l \in 1..Len(TEST_PATTERNS) : has(l)
        THEN TEST_PATTERNS[CHOOSE l \in 1..Len(TEST_PATTERNS) :
                               has(l) /\ \A k \in 1..(l - 1) : ~has(k)].language
        ELSE "unknown"

_generateTestPaths(sourcePath) ==
    LET parts          == Split(sourcePath, "/")
        filename       == parts[Len(parts)]
        dir            == Join(SubSeq(parts, 1, Len(parts) - 1), <<"/">>)
        dots           == Split(filename, ".")
        nameWithoutExt == Join(SubSeq(dots, 1, Len(dots) - 1), <<".">>)
        ext            == dots[Len(dots)]
        hasSrc         == \E i \in 1..Len(parts) : parts[i] = <<"s","r","c">>
        srcIndex       == CHOOSE i \in 1..Len(parts) :
                              parts[i] = <<"s","r","c">> /\ \A k \in 1..(i - 1) : parts[k] # <<"s","r","c">>
    IN  << dir \o <<"/">> \o nameWithoutExt \o <<".","t","e","s","t",".">> \o ext,
           dir \o <<"/">> \o nameWithoutExt \o <<".","s","p","e","c",".">> \o ext,
           dir \o <<"/","_","_","t","e","s","t","s","_","_","/">> \o filename,
           dir \o <<"/","_","_","t","e","s","t","s","_","_","/">> \o nameWithoutExt \o <<".","t","e","s","t",".">> \o ext,
           dir \o <<"/","t","e","s","t","s","/">> \o filename,
           dir \o <<"/","t","e","s","t","/">> \o filename >>
        \o (IF hasSrc
            THEN << Join([parts EXCEPT ![srcIndex] = <<"t","e","s","t">>], <<"/">>),
                    Join([parts EXCEPT ![srcIndex] = <<"t","e","s","t","s">>], <<"/">>) >>
            ELSE <<>>)

\* The helpers above are functions of the file name alone; the service calls
\* them once per changed file, and the tables hold those calls' results
isTestFile == [filename \in Filenames |-> _isTestFile(filename)]
matchesTestPattern == [filename \in Filenames |-> MatchesTestPattern(filename)]
isCodeFile == [filename \in Filenames |-> _isCodeFile(filename)]
detectLanguage == [filename \in Filenames |-> _detectLanguage(filename)]
generateTestPaths == [sourcePath \in Filenames |-> _generateTestPaths(sourcePath)]

\* Math.round(a / b) for a >= 0, b > 0
MathRound(a, b) == (2 * a + b) \div (2 * b)

Min(a, b) == IF a <= b THEN a ELSE b

\* Array.prototype.sort((a, b) => key(b) - key(a)): descending, and stable
\* (elements of equal key keep their order)
SortDescending(arr, keys) ==
    LET \* the place of arr[i]: behind every larger key, and behind the equal
        \* keys that stood before it (keys[i] is the sort key of arr[i])
        place(i) == Cardinality({ j \in 1..Len(arr) : keys[j] > keys[i] })
                    + Cardinality({ j \in 1..(i - 1) : keys[j] = keys[i] }) + 1
    IN  [k \in 1..Len(arr) |-> arr[CHOOSE i \in 1..Len(arr) : place(i) = k]]

\* Confidence is kept in hundredths: 1.0 is 100, 0.9 is 90, 0.6 is 60
_identifyExistingTests(changedFiles) ==
    LET testFiles == SelectSeq(changedFiles, LAMBDA file : isTestFile[file.filename])
    IN  [i \in 1..Len(testFiles) |->
            [path       |-> testFiles[i].filename,
             type       |-> "existing",
             language   |-> detectLanguage[testFiles[i].filename],
             confidence |-> 100,
             reason     |-> "Direct test file modification"]]

\* _identifySourceFiles with the test-file exclusion left out of the filter
_identifySourceFiles_withoutTestCheck(changedFiles) ==
    LET kept == SelectSeq(changedFiles, LAMBDA file : isCodeFile[file.filename])
    IN  [i \in 1..Len(kept) |->
            [path      |-> kept[i].filename,
             language  |-> detectLanguage[kept[i].filename],
             additions |-> OrZero(kept[i], "additions"),
             deletions |-> OrZero(kept[i], "deletions"),
             changes   |-> OrZero(kept[i], "changes")]]

_identifySourceFiles(changedFiles) ==
    LET kept == SelectSeq(changedFiles,
                          LAMBDA file : ~isTestFile[file.filename] /\ isCodeFile[file.filename])
    IN  [i \in 1..Len(kept) |->
            [path      |-> kept[i].filename,
             language  |-> detectLanguage[kept[i].filename],
             additions |-> OrZero(kept[i], "additions"),
             deletions |-> OrZero(kept[i], "deletions"),
             changes   |-> OrZero(kept[i], "changes")]]

\* RelatedTestsOf with the inner loop stopping at the first generated path
\* that is present
RelatedTestsOf_firstMatchOnly(sourceFile, allFiles) ==
    LET possibleTestPaths == generateTestPaths[sourceFile.path]
        present == SelectSeq(possibleTestPaths,
                             LAMBDA testPath : \E i \in 1..Len(allFiles) : allFiles[i].filename = testPath)
    IN  [i \in 1..Min(Len(present), 1) |->
            [path       |-> present[i],
             type       |-> "related",
             sourceFile |-> sourceFile.path,
             language   |-> sourceFile.language,
             confidence |-> 90,
             reason     |-> "Test file for modified source"]]
        \o <<[path       |-> possibleTestPaths[1],
              type       |-> "suggested",
              sourceFile |-> sourceFile.path,
              language   |-> sourceFile.language,
              confidence |-> 60,
              reason     |-> "Suggested test file based on naming convention"]>>

\* The entries one source file contributes: a related entry for every
\* generated path that is among the changed files, then the suggestion
RelatedTestsOf(sourceFile, allFiles) ==
    LET possibleTestPaths == generateTestPaths[sourceFile.path]
        present == SelectSeq(possibleTestPaths,
                             LAMBDA testPath : \E i \in 1..Len(allFiles) : allFiles[i].filename = testPath)
    IN  [i \in 1..Len(present) |->
            [path       |-> present[i],
             type       |-> "related",
             sourceFile |-> sourceFile.path,
             language   |-> sourceFile.language,
             confidence |-> 90,
             reason     |-> "Test file for modified source"]]
        \o (IF Len(possibleTestPaths) > 0
            THEN <<[path       |-> possibleTestPaths[1],
                    type       |-> "suggested",
                    sourceFile |-> sourceFile.path,
                    language   |-> sourceFile.language,
                    confidence |-> 60,
                    reason     |-> "Suggested test file based on naming convention"]>>
            ELSE <<>>)

RECURSIVE _findRelatedTests(_, _)
_findRelatedTests(sourceFiles, allFiles) ==
    IF Len(sourceFiles) = 0 THEN <<>>
    ELSE RelatedTestsOf(Head(sourceFiles), allFiles) \o _findRelatedTests(Tail(sourceFiles), allFiles)

_calculateCoverage(sourceFiles, relatedTests) ==
    IF Len(sourceFiles) = 0 THEN 100
    ELSE LET testedFiles == Len(SelectSeq(relatedTests, LAMBDA t : t.type = "related"))
         IN  MathRound(testedFiles * 100, Len(sourceFiles))

_generateRecommendations(sourceFiles, relatedTests) ==
    LET testedPaths == { relatedTests[i].sourceFile : i \in 1..Len(relatedTests) }
        untested    == SelectSeq(sourceFiles, LAMBDA sourceFile : sourceFile.path \notin testedPaths)
    IN  [i \in 1..Len(untested) |->
            [type       |-> "missing_test",
             severity   |-> IF untested[i].changes > 50 THEN "high" ELSE "medium",
             file       |-> untested[i].path,
             message    |-> <<"N","o"," ","t","e","s","t"," ","f","i","l","e"," ","f","o","u","n","d"," ","f","o","r"," ">> \o untested[i].path,
             suggestion |-> <<"C","r","e","a","t","e"," ","t","e","s","t"," ","a","t",":"," ">> \o generateTestPaths[untested[i].path][1]]]

\* this._isTestFile(file.filename || file.path) is handed undefined when the
\* file name is empty (no fetcher sets a path field), and
\* filename.toLowerCase() throws a TypeError
_analyzeRiskThrows(changedFiles) ==
    \E i \in 1..Len(changedFiles) : changedFiles[i].filename = <<>>

\* The risk of one changed file
FileRisk(file) ==
    LET changes == IF OrZero(file, "changes") # 0 THEN file.changes
                   ELSE OrZero(file, "additions") + OrZero(file, "deletions")
        size    == IF changes > 100 THEN 30
                   ELSE IF changes > 50 THEN 20
                   ELSE IF changes > 10 THEN 10
                   ELSE 0
        risk    == size + (IF ~isTestFile[file.filename] THEN 10 ELSE 0)
    IN  [file |-> file.filename, risk |-> risk, changes |-> changes]

RECURSIVE SumRisk(_)
SumRisk(rs) == IF Len(rs) = 0 THEN 0 ELSE Head(rs).risk + SumRisk(Tail(rs))

_analyzeRisk(changedFiles) ==
    LET all       == [i \in 1..Len(changedFiles) |-> FileRisk(changedFiles[i])]
        totalRisk == SumRisk(all)
        risks     == SelectSeq(all, LAMBDA r : r.risk > 0)
        pushed    == [i \in 1..Len(risks) |-> [risks[i] EXCEPT !.risk = Min(risks[i].risk, 100)]]
    IN  [totalRisk |-> Min(MathRound(totalRisk, Len(changedFiles)), 100),
         risks     |-> SortDescending(pushed, [i \in 1..Len(pushed) |-> pushed[i].risk])]

\* [...new Set(array)]: an element is dropped when the same object occurs
\* earlier in the array.  Every entry is an object literal built by its own
\* push, so two slots never hold the same object, whatever their contents.
SameObject(array, i, j) == i = j

SpreadNewSet(array) ==
    LET keep == { i \in 1..Len(array) : \A j \in 1..(i - 1) : ~SameObject(array, j, i) }
        nth(k) == CHOOSE i \in keep : Cardinality({ j \in keep : j < i }) = k - 1
    IN  [k \in 1..Cardinality(keep) |-> array[nth(k)]]

\* identifyTests throws when _analyzeRisk does; the early return of an empty
\* list comes before
identifyTestsThrows(data) ==
    Len(data.changedFiles) > 0 /\ _analyzeRiskThrows(data.changedFiles)

identifyTests(data) ==
    LET changedFiles == data.changedFiles
    IN
    IF Len(changedFiles) = 0
    THEN [identifiedTests |-> <<>>, coverage |-> 0, recommendations |-> <<>>]
    ELSE LET existingTests   == _identifyExistingTests(changedFiles)
             sourceFiles     == _identifySourceFiles(changedFiles)
             relatedTests    == _findRelatedTests(sourceFiles, changedFiles)
             coverage        == _calculateCoverage(sourceFiles, relatedTests)
             recommendations == _generateRecommendations(sourceFiles, relatedTests)
             riskAnalysis    == _analyzeRisk(changedFiles)
         IN  [identifiedTests |-> SpreadNewSet(existingTests \o relatedTests),
              existingTests   |-> existingTests,
              relatedTests    |-> relatedTests,
              sourceFiles     |-> sourceFiles,
              coverage        |-> coverage,
              recommendations |-> recommendations,
              riskAnalysis    |-> riskAnalysis,
              statistics      |-> [totalFiles   |-> Len(changedFiles),
                                   sourceFiles  |-> Len(sourceFiles),
                                   testFiles    |-> Len(existingTests),
                                   relatedTests |-> Len(relatedTests)]]

----------------------------------------------------------------------------
(* BackgroundController.handleAnalyzePR, one request at a time: the fetch   *)
(* resolves with the pull request's changed files, the analysis runs on     *)
(* them, the analysis is saved to the history and the answer               *)
(* { prData, analysis } goes back to the sender.                           *)

MaxFiles == 3

\* The number of requests the model lets the controller answer with success
MaxRequests == 2

\* const trimmedHistory = history.slice(0, 100)
HistoryLimit == 100

\* The path lists a pull request can consist of
ChangedFileLists == FileLists(MaxFiles)

NoValue == <<>>

\* DEFAULT_CONFIG: the settings the controller, the validator and the
\* services read
DEFAULT_CONFIG ==
    [jenkins  |-> [url |-> <<>>, token |-> <<>>],
     github   |-> [token |-> <<>>],
     gitlab   |-> [token |-> <<>>],
     analysis |-> [coverageThreshold |-> 80, maxTestsToRun |-> 50,
                   complexityThreshold |-> 10, riskScoreThreshold |-> 70],
     features |-> [reporting |-> TRUE]]

STORAGE_KEYS == [CONFIG |-> "testRunnerConfig", HISTORY |-> "testRunnerHistory"]

\* String.prototype.startsWith
StartsWith(s, t) == Len(t) <= Len(s) /\ SubSeq(s, 1, Len(t)) = t

\* new URL(url) succeeds with protocol http: or https: (for the url texts of
\* the model: an absolute URL with a host, or a word without a scheme)
isValidUrl(url) ==
    /\ Len(url) > 0
    /\ \/ StartsWith(url, <<"h","t","t","p",":","/","/">>) /\ Len(url) > Len(<<"h","t","t","p",":","/","/">>)
       \/ StartsWith(url, <<"h","t","t","p","s",":","/","/">>) /\ Len(url) > Len(<<"h","t","t","p","s",":","/","/">>)

isValidToken(token) == Len(token) >= 10 /\ Len(token) <= 500

\* validateConfig without the check of analysis.coverageThreshold
validateConfig_withoutThresholdCheck(cfg) ==
    LET has(section) == section \in DOMAIN cfg
        check(bad, message) == IF bad THEN << message >> ELSE <<>>
        errors ==
            check(has("jenkins") /\ Len(cfg.jenkins.url) > 0 /\ ~isValidUrl(cfg.jenkins.url),
                  "Invalid Jenkins URL format")
            \o check(has("jenkins") /\ Len(cfg.jenkins.token) > 0 /\ ~isValidToken(cfg.jenkins.token),
                     "Invalid Jenkins token format")
            \o check(has("github") /\ Len(cfg.github.token) > 0 /\ ~isValidToken(cfg.github.token),
                     "Invalid GitHub token format")
            \o check(has("gitlab") /\ Len(cfg.gitlab.token) > 0 /\ ~isValidToken(cfg.gitlab.token),
                     "Invalid GitLab token format")
            \o check(has("analysis") /\ cfg.analysis.maxTestsToRun < 1,
                     "Max tests to run must be a positive number")
    IN  [isValid |-> Len(errors) = 0, errors |-> errors]

\* validateConfig: the errors in the order they are pushed.  A value that
\* is an empty string is falsy and is not looked at.
validateConfig(cfg) ==
    LET has(section) == section \in DOMAIN cfg
        check(bad, message) == IF bad THEN << message >> ELSE <<>>
        errors ==
            check(has("jenkins") /\ Len(cfg.jenkins.url) > 0 /\ ~isValidUrl(cfg.jenkins.url),
                  "Invalid Jenkins URL format")
            \o check(has("jenkins") /\ Len(cfg.jenkins.token) > 0 /\ ~isValidToken(cfg.jenkins.token),
                     "Invalid Jenkins token format")
            \o check(has("github") /\ Len(cfg.github.token) > 0 /\ ~isValidToken(cfg.github.token),
                     "Invalid GitHub token format")
            \o check(has("gitlab") /\ Len(cfg.gitlab.token) > 0 /\ ~isValidToken(cfg.gitlab.token),
                     "Invalid GitLab token format")
            \o check(has("analysis") /\ (cfg.analysis.coverageThreshold < 0
                                         \/ cfg.analysis.coverageThreshold > 100),
                     "Coverage threshold must be between 0 and 100")
            \o check(has("analysis") /\ cfg.analysis.maxTestsToRun < 1,
                     "Max tests to run must be a positive number")
    IN  [isValid |-> Len(errors) = 0, errors |-> errors]

\* The configurations a saveConfig message carries: with a GitHub token,
\* with reporting switched off, with a coverage threshold out of range,
\* with a token too short, with a Jenkins URL that is no URL
SubmittedConfigs ==
    { [DEFAULT_CONFIG EXCEPT !.github.token = <<"g","h","p","_","0","1","2","3","4","5","6","7","8","9">>],
      [DEFAULT_CONFIG EXCEPT !.features.reporting = FALSE],
      [DEFAULT_CONFIG EXCEPT !.analysis.coverageThreshold = 150],
      [DEFAULT_CONFIG EXCEPT !.github.token = <<"s","h","o","r","t">>],
      [DEFAULT_CONFIG EXCEPT !.jenkins.url = <<"j","e","n","k","i","n","s">>] }

\* initializeServices: three instances, each holding the configuration it
\* was constructed with
initializeServices(cfg) ==
    [gitService     |-> [config |-> cfg],
     jenkinsService |-> [config |-> cfg],
     testService    |-> [config |-> cfg]]

\* A key-value area without entries
Empty == <<>>

\* area with key set to value, and with key removed
WithKey(area, key, value) == (key :> value) @@ area
WithoutKey(area, key) == [k \in (DOMAIN area) \ {key} |-> area[k]]

\* storage after loadConfig read the configuration cfg: a stored one is in
\* chrome.storage.sync, and the value read is cached either way
StorageHolding(cfg) ==
    [sync  |-> IF cfg = DEFAULT_CONFIG THEN Empty ELSE WithKey(Empty, STORAGE_KEYS.CONFIG, cfg),
     cache |-> WithKey(Empty, STORAGE_KEYS.CONFIG, cfg)]

\* trimmedHistory with the entry pushed at the end: history.push(entry)
trimmedHistory_pushAtEnd(read, entry) ==
    LET pushed == read \o <<entry>>
    IN  SubSeq(pushed, 1, Min(Len(pushed), HistoryLimit))

\* const trimmedHistory = history.unshift(entry), history.slice(0, 100)
trimmedHistory(read, entry) ==
    LET unshifted == <<entry>> \o read
    IN  SubSeq(unshifted, 1, Min(Len(unshifted), HistoryLimit))

\* A maxTestsToRun the user has saved in place of the default
ConfiguredMaxTests == 2

\* storage.get(STORAGE_KEYS.CONFIG, { defaultValue: DEFAULT_CONFIG }): the
\* default, or a configuration saved earlier
StoredConfigs ==
    { DEFAULT_CONFIG, [DEFAULT_CONFIG EXCEPT !.analysis.maxTestsToRun = ConfiguredMaxTests] }

\* loadConfig, initializeServices; storage.getLocal(STORAGE_KEYS.HISTORY, [])
\* before anything was saved
Init ==
    /\ pc = "idle"
    /\ prData = NoValue
    /\ analysis = NoValue
    /\ history = <<>>
    /\ config \in StoredConfigs
    /\ codeChanges = NoValue
    /\ repoStructure = NoValue
    /\ existingTestFiles = NoValue
    /\ requests = <<>>
    /\ services = initializeServices(config)
    /\ storage = StorageHolding(config)
    /\ clock = 0
    /\ monitor = NoValue

\* await this.gitService.fetchPRData(platform, prInfo) resolves
FetchPRData ==
    /\ pc = "idle"
    /\ Len(history) < MaxRequests
    /\ \E platform \in Platforms, paths \in ChangedFileLists :
           prData' = [platform |-> platform, changedFiles |-> changedFilesOf(platform, paths)]
    /\ pc' = "fetched"
    /\ UNCHANGED <<analysis, history, config, analyzerVars, controllerVars, monitor>>

\* await this.gitService.fetchPRData(platform, prInfo) rejects (the API
\* answers with an error, credentials are missing): control is in the catch
FetchPRDataRejects ==
    /\ pc = "idle"
    /\ pc' = "failed"
    /\ UNCHANGED <<prData, analysis, history, config, analyzerVars, controllerVars, monitor>>

\* await this.testService.identifyTests(prData): the analysis, or the
\* TypeError of _analyzeRisk, which takes control to the catch
IdentifyTests ==
    /\ pc = "fetched"
    /\ IF identifyTestsThrows(prData)
       THEN pc' = "failed" /\ UNCHANGED analysis
       ELSE pc' = "analyzed" /\ analysis' = identifyTests(prData)
    /\ UNCHANGED <<prData, history, config, analyzerVars, controllerVars, monitor>>

\* saveToHistory with nothing between its getLocal and its setLocal.  An
\* entry { platform, prInfo, analysis, timestamp } is kept by its platform
\* and its timestamp.
saveToHistory(entry) == trimmedHistory(history, entry)

\* await this.saveToHistory(...); return { success: true, prData, analysis }:
\* the handler's locals are gone
Respond ==
    /\ pc = "analyzed"
    /\ history' = saveToHistory([platform |-> prData.platform, timestamp |-> clock])
    /\ clock' = clock + 1
    /\ pc' = "idle"
    /\ prData' = NoValue
    /\ analysis' = NoValue
    /\ UNCHANGED <<config, analyzerVars, requests, services, storage, monitor>>

\* return { success: false, error: error.message }
RespondFailure ==
    /\ pc = "failed"
    /\ pc' = "idle"
    /\ prData' = NoValue
    /\ UNCHANGED <<analysis, history, config, analyzerVars, controllerVars, monitor>>

Next ==
    \/ FetchPRData
    \/ FetchPRDataRejects
    \/ IdentifyTests
    \/ Respond
    \/ RespondFailure

Spec == Init /\ [][Next]_vars

\* The number of analyses the model lets the controller save one after the
\* other: one more than the history keeps
MaxSaves == 101

\* The changed files of the pull request that is analysed again and again
HistoryPull == << <<"s","r","c","/","a",".","j","s">>, <<"s","r","c","/","a",".","t","e","s","t",".","j","s">> >>

InitHistory ==
    /\ pc = "idle"
    /\ prData = NoValue
    /\ analysis = NoValue
    /\ history = <<>>
    /\ config = DEFAULT_CONFIG
    /\ codeChanges = NoValue
    /\ repoStructure = NoValue
    /\ existingTestFiles = NoValue
    /\ requests = <<>>
    /\ services = initializeServices(DEFAULT_CONFIG)
    /\ storage = StorageHolding(DEFAULT_CONFIG)
    /\ clock = 0
    /\ monitor = NoValue

\* await this.gitService.fetchPRData(platform, prInfo) resolves, for the one
\* pull request of a long run of analyses
FetchPullRequest ==
    /\ pc = "idle"
    /\ clock < MaxSaves
    /\ prData' = [platform |-> "github", changedFiles |-> changedFilesOf("github", HistoryPull)]
    /\ pc' = "fetched"
    /\ UNCHANGED <<analysis, history, config, analyzerVars, controllerVars, monitor>>

NextHistory ==
    \/ FetchPullRequest
    \/ FetchPRDataRejects
    \/ IdentifyTests
    \/ Respond
    \/ RespondFailure

SpecHistory == InitHistory /\ [][NextHistory]_vars

----------------------------------------------------------------------------------------------------------------------------------------------------
(* BackgroundController with several messages in flight: every await of a  *)
(* handler is a point where the handlers of other messages run.            *)

\* The number of messages the model lets the controller receive
MaxMessages == 2

\* The changed files the fetch of a pull request resolves with
ControllerPulls == { << <<"s","r","c","/","a",".","j","s">> >>, << <<"s","r","c","/","a",".","j","s">>, <<"s","r","c","/","a",".","t","e","s","t",".","j","s">> >> }

\* The platform names a triggerJenkins message carries; svn is none of PLATFORMS
CommentPlatforms == { "github", "bitbucket", "svn" }

\* The request whose handler has moved on: the new locals over the old ones
Moved(request, locals) == locals @@ request

\* return { success: ... }: the answer goes to the sender
Answer(request, locals, success) ==
    [pc |-> "answered", response |-> [success |-> success]] @@ locals @@ request

InitController ==
    /\ pc = "idle"
    /\ prData = NoValue
    /\ analysis = NoValue
    /\ history = <<>>
    /\ config = DEFAULT_CONFIG
    /\ codeChanges = NoValue
    /\ repoStructure = NoValue
    /\ existingTestFiles = NoValue
    /\ requests = <<>>
    /\ services = initializeServices(DEFAULT_CONFIG)
    /\ storage = StorageHolding(DEFAULT_CONFIG)
    /\ clock = 0
    /\ monitor = NoValue

\* handleMessage, case ANALYZE_PR: handleAnalyzePR runs up to
\* await this.gitService.fetchPRData(platform, prInfo)
ReceiveAnalyzePR ==
    /\ Len(requests) < MaxMessages
    /\ \E platform \in Platforms :
           requests' = Append(requests,
               [action     |-> "analyzePR",
                data       |-> [platform |-> platform,
                                prInfo   |-> [owner |-> "owner", repo |-> "repo", prNumber |-> 1]],
                gitService |-> services.gitService,
                pc         |-> "fetching"])
    /\ UNCHANGED <<history, config, services, storage, clock, sequentialVars, analyzerVars, monitor>>

\* The fetch resolves: this.testService.identifyTests(prData) runs, the entry
\* gets its timestamp and saveToHistory runs up to await storage.getLocal;
\* a throw of identifyTests takes control to the catch
FetchResolves ==
    \E i \in 1..Len(requests) :
        /\ requests[i].action = "analyzePR"
        /\ requests[i].pc = "fetching"
        /\ \E paths \in ControllerPulls :
               LET platform == requests[i].data.platform
                   fetched  == [platform |-> platform, changedFiles |-> changedFilesOf(platform, paths)]
                   called   == [prData |-> fetched, testService |-> services.testService]
               IN  IF identifyTestsThrows(fetched)
                   THEN /\ requests' = [requests EXCEPT ![i] = Answer(@, called, FALSE)]
                        /\ UNCHANGED clock
                   ELSE /\ requests' = [requests EXCEPT ![i] =
                               Moved(@, [pc       |-> "reading",
                                         analysis |-> identifyTests(fetched),
                                         entry    |-> [platform  |-> platform,
                                                       prInfo    |-> requests[i].data.prInfo,
                                                       timestamp |-> clock]] @@ called)]
                        /\ clock' = clock + 1
        /\ UNCHANGED <<history, config, services, storage, sequentialVars, analyzerVars, monitor>>

\* The fetch rejects: catch, return { success: false, error }
FetchRejects ==
    \E i \in 1..Len(requests) :
        /\ requests[i].action = "analyzePR"
        /\ requests[i].pc = "fetching"
        /\ requests' = [requests EXCEPT ![i] = Answer(@, <<>>, FALSE)]
        /\ UNCHANGED <<history, config, services, storage, clock, sequentialVars, analyzerVars, monitor>>

\* chrome.storage.local.get answers with the stored history; saveToHistory
\* goes on to history.unshift(entry), slice and await storage.setLocal
HistoryRead ==
    \E i \in 1..Len(requests) :
        /\ requests[i].action = "analyzePR"
        /\ requests[i].pc = "reading"
        /\ requests' = [requests EXCEPT ![i] =
               Moved(@, [pc |-> "writing", trimmedHistory |-> trimmedHistory(history, requests[i].entry)])]
        /\ UNCHANGED <<history, config, services, storage, clock, sequentialVars, analyzerVars, monitor>>

\* chrome.storage.local.set stores trimmedHistory; handleAnalyzePR returns
\* { success: true, prData, analysis }
HistoryWritten ==
    \E i \in 1..Len(requests) :
        /\ requests[i].action = "analyzePR"
        /\ requests[i].pc = "writing"
        /\ history' = requests[i].trimmedHistory
        /\ requests' = [requests EXCEPT ![i] = Answer(@, <<>>, TRUE)]
        /\ UNCHANGED <<config, services, storage, clock, sequentialVars, analyzerVars, monitor>>

\* handleMessage, case SAVE_CONFIG, validation fails:
\* return { success: false, errors: validation.errors }
ReceiveInvalidConfig ==
    /\ Len(requests) < MaxMessages
    /\ \E cfg \in SubmittedConfigs :
           /\ ~validateConfig(cfg).isValid
           /\ requests' = Append(requests,
                  [action   |-> "saveConfig",
                   data     |-> [config |-> cfg],
                   pc       |-> "answered",
                   response |-> [success |-> FALSE, errors |-> validateConfig(cfg).errors]])
    /\ UNCHANGED <<history, config, services, storage, clock, sequentialVars, analyzerVars, monitor>>

\* handleMessage, case SAVE_CONFIG, validation passes: handleSaveConfig runs
\* up to await storage.set(STORAGE_KEYS.CONFIG, config)
ReceiveSaveConfig ==
    /\ Len(requests) < MaxMessages
    /\ \E cfg \in SubmittedConfigs :
           /\ validateConfig(cfg).isValid
           /\ requests' = Append(requests,
                  [action |-> "saveConfig", data |-> [config |-> cfg], pc |-> "storing"])
    /\ UNCHANGED <<history, config, services, storage, clock, sequentialVars, analyzerVars, monitor>>

\* chrome.storage.sync.set succeeds: storage.set caches the value and
\* returns true; this.config = config; initializeServices(); success
ConfigStored ==
    \E i \in 1..Len(requests) :
        /\ requests[i].action = "saveConfig"
        /\ requests[i].pc = "storing"
        /\ storage' = [sync  |-> WithKey(storage.sync, STORAGE_KEYS.CONFIG, requests[i].data.config),
                       cache |-> WithKey(storage.cache, STORAGE_KEYS.CONFIG, requests[i].data.config)]
        /\ config' = requests[i].data.config
        /\ services' = initializeServices(requests[i].data.config)
        /\ requests' = [requests EXCEPT ![i] = Answer(@, [stored |-> TRUE], TRUE)]
        /\ UNCHANGED <<history, clock, sequentialVars, analyzerVars, monitor>>

\* chrome.storage.sync.set rejects (quota, write rate): storage.set catches
\* the error and returns false, a value handleSaveConfig does not look at
ConfigStoreFails ==
    \E i \in 1..Len(requests) :
        /\ requests[i].action = "saveConfig"
        /\ requests[i].pc = "storing"
        /\ config' = requests[i].data.config
        /\ services' = initializeServices(requests[i].data.config)
        /\ requests' = [requests EXCEPT ![i] = Answer(@, [stored |-> FALSE], TRUE)]
        /\ UNCHANGED <<history, storage, clock, sequentialVars, analyzerVars, monitor>>

\* handleMessage, case CLEAR_HISTORY: handleClearHistory runs up to
\* await storage.remove(STORAGE_KEYS.HISTORY)
ReceiveClearHistory ==
    /\ Len(requests) < MaxMessages
    /\ requests' = Append(requests, [action |-> "clearHistory", pc |-> "removing"])
    /\ UNCHANGED <<history, config, services, storage, clock, sequentialVars, analyzerVars, monitor>>

\* storage.remove: chrome.storage.sync.remove([key]), cache.delete(key),
\* true (false had the removal failed: handleClearHistory does not look at
\* it); return { success: true }
HistoryKeyRemoved ==
    \E i \in 1..Len(requests) :
        /\ requests[i].action = "clearHistory"
        /\ requests[i].pc = "removing"
        /\ storage' = [sync  |-> WithoutKey(storage.sync, STORAGE_KEYS.HISTORY),
                       cache |-> WithoutKey(storage.cache, STORAGE_KEYS.HISTORY)]
        /\ requests' = [requests EXCEPT ![i] = Answer(@, <<>>, TRUE)]
        /\ UNCHANGED <<history, config, services, clock, sequentialVars, analyzerVars, monitor>>

\* handleMessage, case TRIGGER_JENKINS: handleTriggerJenkins runs up to
\* await this.jenkinsService.triggerPipeline(...)
ReceiveTriggerJenkins ==
    /\ Len(requests) < MaxMessages
    /\ \E platform \in CommentPlatforms :
           requests' = Append(requests,
               [action         |-> "triggerJenkins",
                data           |-> [platform |-> platform,
                                    prInfo   |-> [owner |-> "owner", repo |-> "repo", prNumber |-> 1]],
                jenkinsService |-> services.jenkinsService,
                pc             |-> "triggering"])
    /\ UNCHANGED <<history, config, services, storage, clock, sequentialVars, analyzerVars, monitor>>

\* triggerPipeline rejects: catch, return { success: false, error }
TriggerRejects ==
    \E i \in 1..Len(requests) :
        /\ requests[i].action = "triggerJenkins"
        /\ requests[i].pc = "triggering"
        /\ requests' = [requests EXCEPT ![i] = Answer(@, [triggered |-> FALSE], FALSE)]
        /\ UNCHANGED <<history, config, services, storage, clock, sequentialVars, analyzerVars, monitor>>

\* What this.gitService.postComment(platform, prInfo, comment) does before
\* its first await.  The switch returns the promise of the platform's
\* poster without awaiting it, so the try catches only the throw of the
\* default case: "false" for an unsupported platform, "rejected" when
\* _postGitHubComment throws for a missing token, "pending" when the
\* poster waits for its fetch.
postComment(gitService, platform) ==
    IF platform \notin Platforms THEN "false"
    ELSE IF platform = "github" /\ Len(gitService.config.github.token) = 0 THEN "rejected"
    ELSE "pending"

\* triggerPipeline resolves with buildInfo: with features.reporting the
\* comment is generated and await this.gitService.postComment(...) entered
TriggerResolves ==
    \E i \in 1..Len(requests) :
        /\ requests[i].action = "triggerJenkins"
        /\ requests[i].pc = "triggering"
        /\ LET comment == IF config.features.reporting
                          THEN postComment(services.gitService, requests[i].data.platform)
                          ELSE "none"
               locals  == [triggered |-> TRUE, comment |-> comment]
           IN  requests' = [requests EXCEPT ![i] =
                   IF comment = "pending" THEN Moved(@, [pc |-> "commenting"] @@ locals)
                   ELSE Answer(@, locals, comment # "rejected")]
        /\ UNCHANGED <<history, config, services, storage, clock, sequentialVars, analyzerVars, monitor>>

\* The poster's fetch answers: postComment resolves to response.ok;
\* return { success: true, buildInfo }
CommentResponds ==
    \E i \in 1..Len(requests) :
        /\ requests[i].action = "triggerJenkins"
        /\ requests[i].pc = "commenting"
        /\ \E ok \in BOOLEAN :
               requests' = [requests EXCEPT ![i] =
                   Answer(@, [comment |-> IF ok THEN "true" ELSE "false"], TRUE)]
        /\ UNCHANGED <<history, config, services, storage, clock, sequentialVars, analyzerVars, monitor>>

\* The poster's fetch rejects (no connection): the promise postComment
\* returned rejects, and control is in the catch of handleTriggerJenkins
CommentFetchRejects ==
    \E i \in 1..Len(requests) :
        /\ requests[i].action = "triggerJenkins"
        /\ requests[i].pc = "commenting"
        /\ requests' = [requests EXCEPT ![i] = Answer(@, [comment |-> "rejected"], FALSE)]
        /\ UNCHANGED <<history, config, services, storage, clock, sequentialVars, analyzerVars, monitor>>

NextController ==
    \/ ReceiveAnalyzePR
    \/ ReceiveInvalidConfig
    \/ ReceiveSaveConfig
    \/ ReceiveClearHistory
    \/ ReceiveTriggerJenkins
    \/ FetchResolves
    \/ FetchRejects
    \/ HistoryRead
    \/ HistoryWritten
    \/ ConfigStored
    \/ ConfigStoreFails
    \/ HistoryKeyRemoved
    \/ TriggerRejects
    \/ TriggerResolves
    \/ CommentResponds
    \/ CommentFetchRejects

SpecController == InitController /\ [][NextController]_vars

----
(* TestAnalyzer, the single-file background script: analyzeTests and the   *)
(* methods it calls.  Where the class defines a method twice, the later    *)
(* definition is the one in effect.                                        *)

\* The files of the model's repositories, in the order of the tree listing
RepoFilePool ==
    << <<"s","r","c","/","a",".","j","s">>, <<"s","r","c","/","a",".","t","e","s","t",".","j","s">>, <<"s","r","c","/","a",".","s","p","e","c",".","j","s">>, <<"s","r","c","/","b",".","j","s">>,
       <<"l","i","b","/","b",".","t","e","s","t",".","j","s">>, <<".","g","i","t","h","u","b","/","b",".","t","e","s","t",".","j","s">> >>

\* The patterns loadTestPatterns returns, language by language
loadTestPatterns ==
    [javascript |->
        [patterns   |-> << <<"*","*","/","*",".","t","e","s","t",".","j","s">>, <<"*","*","/","*",".","s","p","e","c",".","j","s">>, <<"*","*","/","t","e","s","t","/","*","*","/","*",".","j","s">>,
                           <<"*","*","/","t","e","s","t","s","/","*","*","/","*",".","j","s">>, <<"*","*","/","_","_","t","e","s","t","s","_","_","/","*","*","/","*",".","j","s">> >>,
         frameworks |-> << "jest", "mocha", "jasmine", "vitest" >>],
     typescript |->
        [patterns   |-> << <<"*","*","/","*",".","t","e","s","t",".","t","s">>, <<"*","*","/","*",".","s","p","e","c",".","t","s">>, <<"*","*","/","t","e","s","t","/","*","*","/","*",".","t","s">>,
                           <<"*","*","/","t","e","s","t","s","/","*","*","/","*",".","t","s">>, <<"*","*","/","_","_","t","e","s","t","s","_","_","/","*","*","/","*",".","t","s">> >>,
         frameworks |-> << "jest", "mocha", "jasmine", "vitest" >>],
     python |->
        [patterns   |-> << <<"*","*","/","t","e","s","t","_","*",".","p","y">>, <<"*","*","/","*","_","t","e","s","t",".","p","y">>, <<"*","*","/","t","e","s","t","s","/","*","*","/","*",".","p","y">>,
                           <<"*","*","/","t","e","s","t","/","*","*","/","*",".","p","y">> >>,
         frameworks |-> << "pytest", "unittest", "nose2" >>],
     java |->
        [patterns   |-> << <<"*","*","/","s","r","c","/","t","e","s","t","/","*","*","/","*",".","j","a","v","a">>, <<"*","*","/","*","T","e","s","t",".","j","a","v","a">>, <<"*","*","/","*","T","e","s","t","s",".","j","a","v","a">>,
                           <<"*","*","/","t","e","s","t","/","*","*","/","*",".","j","a","v","a">> >>,
         frameworks |-> << "junit", "testng", "spock" >>]]

languageIndicators ==
    << [language |-> "javascript", indicators |-> << <<".","j","s">>, <<"p","a","c","k","a","g","e",".","j","s","o","n">>, <<".","j","s","x">> >>],
       [language |-> "typescript", indicators |-> << <<".","t","s">>, <<".","t","s","x">>, <<"t","s","c","o","n","f","i","g",".","j","s","o","n">> >>],
       [language |-> "java",       indicators |-> << <<".","j","a","v","a">>, <<"p","o","m",".","x","m","l">>, <<"b","u","i","l","d",".","g","r","a","d","l","e">> >>],
       [language |-> "python",     indicators |-> << <<".","p","y">>, <<"r","e","q","u","i","r","e","m","e","n","t","s",".","t","x","t">>, <<"s","e","t","u","p",".","p","y">>,
                                                     <<"p","y","p","r","o","j","e","c","t",".","t","o","m","l">> >>],
       [language |-> "csharp",     indicators |-> << <<".","c","s">>, <<".","c","s","p","r","o","j">>, <<".","s","l","n">> >>],
       [language |-> "go",         indicators |-> << <<".","g","o">>, <<"g","o",".","m","o","d">> >>],
       [language |-> "php",        indicators |-> << <<".","p","h","p">>, <<"c","o","m","p","o","s","e","r",".","j","s","o","n">> >>] >>

detectProjectLanguages(files) ==
    LET hasIndicator(entry) ==
            \E k \in 1..Len(entry.indicators) :
                \E f \in 1..Len(files) : Includes(files[f], entry.indicators[k])
        detected == SelectSeq(languageIndicators, hasIndicator)
    IN  IF Len(detected) > 0
        THEN [i \in 1..Len(detected) |-> detected[i].language]
        ELSE << "javascript" >>

\* The later globToRegex: ** to .*, then * to [^/]*, then ? to ., then every
\* . escaped; compiled between ^ and $
globToRegex(pattern) ==
    [source   |-> ReplaceAll(ReplaceAll(ReplaceAll(ReplaceAll(pattern, <<"*","*">>, <<".","*">>),
                                                   <<"*">>, <<"[","^","/","]","*">>),
                                        <<"?">>, <<".">>),
                             <<".">>, <<"\\",".">>),
     anchored |-> TRUE]

\* The later getTestType
getTestType(fileName) ==
    IF Includes(fileName, <<"u","n","i","t">>) THEN "unit"
    ELSE IF Includes(fileName, <<"i","n","t","e","g","r","a","t","i","o","n">>) THEN "integration"
    ELSE IF Includes(fileName, <<"e","2","e">>) \/ Includes(fileName, <<"e","n","d","-","t","o","-","e","n","d">>) THEN "e2e"
    ELSE "unit"

estimateTestMethods(fileName) ==
    IF Includes(fileName, <<"i","n","t","e","g","r","a","t","i","o","n">>) THEN 5 * 2
    ELSE IF Includes(fileName, <<"e","2","e">>) THEN 5 * 3
    ELSE 5

calculateTestConfidence(fileName, pattern) ==
    LET base == 50
        a == IF Includes(fileName, <<".","t","e","s","t",".">>) \/ Includes(fileName, <<".","s","p","e","c",".">>) THEN 30 ELSE 0
        b == IF Includes(fileName, <<"/","t","e","s","t","/">>) \/ Includes(fileName, <<"/","t","e","s","t","s","/">>) THEN 20 ELSE 0
        c == IF Includes(fileName, <<"_","_","t","e","s","t","s","_","_">>) THEN 25 ELSE 0
        d == IF Includes(pattern, <<"*","*","/","*",".","t","e","s","t",".">>) \/ Includes(pattern, <<"*","*","/","*",".","s","p","e","c",".">>) THEN 15 ELSE 0
    IN  Min(base + a + b + c + d, 95)

getLanguageFromFile(fileName) ==
    LET pieces    == Split(fileName, ".")
        extension == ToLowerCase(pieces[Len(pieces)])
    IN  CASE extension \in { <<"j","s">>, <<"j","s","x">> } -> "javascript"
          [] extension \in { <<"t","s">>, <<"t","s","x">> } -> "typescript"
          [] extension = <<"p","y">>   -> "python"
          [] extension = <<"j","a","v","a">> -> "java"
          [] extension = <<"c","s">>   -> "csharp"
          [] extension = <<"g","o">>   -> "go"
          [] extension = <<"p","h","p">>  -> "php"
          [] OTHER                -> "unknown"

\* The test files found when no pattern accepted any file
findTestsAlternativeMethod(files) ==
    LET testIndicators == << <<"t","e","s","t">>, <<"s","p","e","c">>, <<"_","_","t","e","s","t","s","_","_">>, <<"t","e","s","t","s">>,
                             <<"T","e","s","t">>, <<"S","p","e","c">>, <<"T","e","s","t","s">>, <<"T","E","S","T","S">> >>
        isTest(file) ==
            LET fileName == ToLowerCase(file)
            IN  /\ \E k \in 1..Len(testIndicators) : Includes(fileName, ToLowerCase(testIndicators[k]))
                /\ \/ Includes(fileName, <<".","t","e","s","t",".">>)
                   \/ Includes(fileName, <<".","s","p","e","c",".">>)
                   \/ Includes(fileName, <<"/","t","e","s","t","/">>)
                   \/ Includes(fileName, <<"/","t","e","s","t","s","/">>)
                   \/ Includes(fileName, <<"_","_","t","e","s","t","s","_","_">>)
                   \/ EndsWith(fileName, <<"t","e","s","t",".","j","s">>)
                   \/ EndsWith(fileName, <<"s","p","e","c",".","j","s">>)
                   \/ EndsWith(fileName, <<"t","e","s","t",".","t","s">>)
                   \/ EndsWith(fileName, <<"s","p","e","c",".","t","s">>)
        found == SelectSeq(files, isTest)
    IN  [i \in 1..Len(found) |->
            [fileName         |-> found[i],
             language         |-> getLanguageFromFile(found[i]),
             framework        |-> "unknown",
             type             |-> "unit",
             confidence       |-> 60,
             estimatedMethods |-> << "test1", "test2", "test3" >>]]

\* regex.test(file) of findExistingTests, for each pattern and pool file
patternAccepts ==
    [language \in DOMAIN loadTestPatterns |->
        [p \in 1..Len(loadTestPatterns[language].patterns) |->
            [f \in 1..Len(RepoFilePool) |->
                RegexTest(globToRegex(loadTestPatterns[language].patterns[p]), RepoFilePool[f])]]]

\* The entries one pattern of one language pushes, file by file
TestsOfPattern(language, p, files) ==
    LET accepted(file) == \E f \in 1..Len(RepoFilePool) :
                              RepoFilePool[f] = file /\ patternAccepts[language][p][f]
        matched == SelectSeq(files, accepted)
    IN  [i \in 1..Len(matched) |->
            [fileName         |-> matched[i],
             language         |-> language,
             framework        |-> loadTestPatterns[language].frameworks[1],
             type             |-> getTestType(matched[i]),
             confidence       |-> calculateTestConfidence(matched[i], loadTestPatterns[language].patterns[p]),
             estimatedMethods |-> estimateTestMethods(matched[i])]]

RECURSIVE TestsOfPatterns(_, _, _)
TestsOfPatterns(language, p, files) ==
    IF p > Len(loadTestPatterns[language].patterns) THEN <<>>
    ELSE TestsOfPattern(language, p, files) \o TestsOfPatterns(language, p + 1, files)

RECURSIVE TestsOfLanguages(_, _)
TestsOfLanguages(languages, files) ==
    IF Len(languages) = 0 THEN <<>>
    ELSE (IF Head(languages) \in DOMAIN loadTestPatterns
          THEN TestsOfPatterns(Head(languages), 1, files)
          ELSE <<>>)
         \o TestsOfLanguages(Tail(languages), files)

\* The entries carry no reason: identifyRelevantTests replaces it
findExistingTests(structure) ==
    LET files     == structure.files
        testFiles == TestsOfLanguages(detectProjectLanguages(files), files)
    IN  IF Len(testFiles) = 0 THEN findTestsAlternativeMethod(files) ELSE testFiles

\* changedFile.replace(/\.[^/.]+$/, ''): a final extension is cut off
RemoveExtension(s) ==
    LET dots == { i \in 1..(Len(s) - 1) :
                    s[i] = "." /\ \A k \in (i + 1)..Len(s) : s[k] # "/" /\ s[k] # "." }
    IN  IF dots = {} THEN s ELSE SubSeq(s, 1, (CHOOSE i \in dots : TRUE) - 1)

areFilesRelated(file1, file2) ==
    LET parts1 == Split(file1, "/")
        parts2 == Split(file2, "/")
        name1  == ToLowerCase(RemoveExtension(parts1[Len(parts1)]))
        name2  == ToLowerCase(RemoveExtension(parts2[Len(parts2)]))
    IN  Includes(name1, name2) \/ Includes(name2, name1)

\* The confidence the loop body of identifyRelevantTests gives one pair
confidenceOf(changedFile, test) ==
    LET baseName  == RemoveExtension(changedFile)
        parts     == Split(changedFile, "/")
        directory == Join(SubSeq(parts, 1, Len(parts) - 1), <<"/">>)
    IN  IF Includes(test.fileName, baseName) THEN 90
        ELSE IF Includes(test.fileName, directory) THEN 70
        ELSE IF areFilesRelated(changedFile, test.fileName) THEN 60
        ELSE 0

\* The reason that goes with the confidence
reasonOf(changedFile, test) ==
    LET confidence == confidenceOf(changedFile, test)
    IN  IF confidence = 90 THEN "Tests file with same name"
        ELSE IF confidence = 70 THEN "Tests in same directory"
        ELSE IF confidence = 60 THEN "Related functionality"
        ELSE ""

\* The entry pushed for a test that passed the threshold
RelevantTest(changedFile, test) ==
    [fileName         |-> test.fileName,
     language         |-> test.language,
     framework        |-> test.framework,
     type             |-> test.type,
     estimatedMethods |-> test.estimatedMethods,
     confidence       |-> confidenceOf(changedFile, test),
     reason           |-> reasonOf(changedFile, test),
     relatedFile      |-> changedFile]

\* RelevantTestsOf with the threshold raised to confidence > 60
RelevantTestsOf_keepAbove60(change, tests) ==
    LET changedFile == change.fileName
        kept(test)  == confidenceOf(changedFile, test) > 60
        pushed      == SelectSeq(tests, kept)
    IN  [i \in 1..Len(pushed) |-> RelevantTest(changedFile, pushed[i])]

\* The entries one code change pushes, test by test
RelevantTestsOf(change, tests) ==
    LET changedFile == change.fileName
        kept(test)  == confidenceOf(changedFile, test) > 50
        pushed      == SelectSeq(tests, kept)
    IN  [i \in 1..Len(pushed) |-> RelevantTest(changedFile, pushed[i])]

RECURSIVE RelevantTestsOfAll(_, _)
RelevantTestsOfAll(changes, tests) ==
    IF Len(changes) = 0 THEN <<>>
    ELSE RelevantTestsOf(Head(changes), tests) \o RelevantTestsOfAll(Tail(changes), tests)

\* relevantTests.filter((test, index, self) =>
\*     index === self.findIndex(t => t.fileName === test.fileName))
FirstOfEachFileName(relevantTests) ==
    LET first == { i \in 1..Len(relevantTests) :
                     \A j \in 1..(i - 1) : relevantTests[j].fileName # relevantTests[i].fileName }
        nth(k) == CHOOSE i \in first : Cardinality({ j \in first : j < i }) = k - 1
    IN  [k \in 1..Cardinality(first) |-> relevantTests[nth(k)]]

\* The later identifyRelevantTests
identifyRelevantTests(changes, tests) ==
    LET uniqueTests == FirstOfEachFileName(RelevantTestsOfAll(changes, tests))
    IN  SortDescending(uniqueTests, [i \in 1..Len(uniqueTests) |-> uniqueTests[i].confidence])

\* The later generateTestSuggestions
generateTestSuggestions(changes) ==
    [i \in 1..Len(changes) |->
        [fileName   |-> RemoveExtension(changes[i].fileName) \o <<".","t","e","s","t",".","j","s">>,
         type       |-> "suggested",
         reason     |-> "No existing tests found for modified file",
         confidence |-> 80,
         template   |-> "unit-test"]]

RECURSIVE SumChangedLines(_)
SumChangedLines(changes) ==
    IF Len(changes) = 0 THEN 0
    ELSE Len(Head(changes).addedLines) + Len(Head(changes).removedLines)
         + SumChangedLines(Tail(changes))

Max(a, b) == IF a >= b THEN a ELSE b

\* analyzeCoverage with the bonus granted from testFilesCount >= totalChangedFiles on
analyzeCoverage_bonusFromEqual(changes, relevantTests) ==
    LET totalChangedFiles == Len(changes)
        testFilesCount    == Len(relevantTests)
        filesCovered      == Min(testFilesCount, totalChangedFiles)
        base              == IF totalChangedFiles > 0
                             THEN MathRound(filesCovered * 100, totalChangedFiles)
                             ELSE 0
        bonus             == Min(20, (testFilesCount - totalChangedFiles) * 5)
        estimatedCoverage == IF totalChangedFiles > 0 /\ testFilesCount >= totalChangedFiles
                             THEN Min(95, base + bonus)
                             ELSE base
    IN  [estimated |-> estimatedCoverage, totalChangedFiles |-> totalChangedFiles,
         testFilesCount |-> testFilesCount]

analyzeCoverage(changes, relevantTests) ==
    LET totalChangedLines == SumChangedLines(changes)
        totalChangedFiles == Len(changes)
        testFilesCount    == Len(relevantTests)
        filesCovered      == Min(testFilesCount, totalChangedFiles)
        base              == IF totalChangedFiles > 0
                             THEN MathRound(filesCovered * 100, totalChangedFiles)
                             ELSE 0
        bonus             == Min(20, (testFilesCount - totalChangedFiles) * 5)
        estimatedCoverage == IF totalChangedFiles > 0 /\ testFilesCount > totalChangedFiles
                             THEN Min(95, base + bonus)
                             ELSE base
        critical(change)  == \E k \in 1..Len(change.modifiedFunctions) :
                                 ToLowerCase(change.modifiedFunctions[k])
                                     \in { <<"m","a","i","n">>, <<"i","n","i","t">>, <<"c","o","n","s","t","r","u","c","t","o","r">>, <<"s","e","t","u","p">> }
        criticalPaths     == Len(SelectSeq(changes, critical))
        riskScore         == Max(0, Min(100, 100 - estimatedCoverage + criticalPaths * 10))
    IN  [estimated         |-> estimatedCoverage,
         criticalPaths     |-> criticalPaths,
         riskScore         |-> riskScore,
         totalChangedLines |-> totalChangedLines,
         totalChangedFiles |-> totalChangedFiles,
         testFilesCount    |-> testFilesCount,
         testCoverage      |-> IF estimatedCoverage >= 80 THEN "Excellent"
                               ELSE IF estimatedCoverage >= 60 THEN "Good"
                               ELSE IF estimatedCoverage >= 40 THEN "Fair"
                               ELSE "Poor"]

\* The later estimateRunTime: 2 + 0.5 per test minutes, rounded; the text
\* "<count> <unit>" is kept as its two parts
estimateRunTime(tests) ==
    LET halfMinutes == 4 + Len(tests)
    IN  IF halfMinutes < 2 * 60
        THEN [count |-> MathRound(halfMinutes, 2), unit |-> "minutes"]
        ELSE [count |-> MathRound(halfMinutes, 2 * 60), unit |-> "hours"]

getMockAnalysisResult ==
    [identifiedTests  |-> << [fileName   |-> <<"t","e","s","t","/","e","x","a","m","p","l","e",".","t","e","s","t",".","j","s">>,
                              confidence |-> 85,
                              reason     |-> "Tests functions modified in PR",
                              methods    |-> << "testUserLogin", "testDataValidation" >>],
                             [fileName   |-> <<"t","e","s","t","/","i","n","t","e","g","r","a","t","i","o","n",".","t","e","s","t",".","j","s">>,
                              confidence |-> 70,
                              reason     |-> "Related to modified components",
                              methods    |-> << "testAPIEndpoint" >>] >>,
     suggestedTests   |-> <<>>,
     coverage         |-> [estimatedCoverage |-> 78, criticalPaths |-> 2, riskScore |-> 25],
     totalTests       |-> 2,
     estimatedRunTime |-> "5-10 minutes",
     note             |-> "Using mock data - configure GitHub token for real analysis"]

\* The result analyzeTests builds once the existing tests are known
analysisResult(data, changes, tests) ==
    LET relevantTests  == identifyRelevantTests(changes, tests)
        suggestedTests == IF Len(relevantTests) = 0 THEN generateTestSuggestions(changes) ELSE <<>>
    IN  [identifiedTests  |-> relevantTests,
         suggestedTests   |-> suggestedTests,
         coverage         |-> analyzeCoverage(changes, relevantTests),
         totalTests       |-> Len(relevantTests),
         estimatedRunTime |-> estimateRunTime(relevantTests),
         repository       |-> data.repository,
         prNumber         |-> data.prNumber,
         source           |-> "real-api"]

\* The number of code changes of a request, and of files of a repository
MaxChanges == 2
MaxRepoFiles == 3

\* A change as the content script extracts it from the diff view
CodeChange(fileName, added, removed, functions) ==
    [fileName          |-> fileName,
     fileExtension     |-> ToLowerCase(Split(fileName, ".")[Len(Split(fileName, "."))]),
     addedLines        |-> [n \in 1..added |-> [lineNumber |-> n]],
     removedLines      |-> [n \in 1..removed |-> [lineNumber |-> n]],
     modifiedFunctions |-> functions,
     changeType        |-> IF added > 0 /\ removed > 0 THEN "modified"
                           ELSE IF added > 0 THEN "added"
                           ELSE IF removed > 0 THEN "deleted"
                           ELSE "unchanged"]

ChangePool ==
    { CodeChange(<<"s","r","c","/","a",".","j","s">>, 2, 1, << <<"i","n","i","t">> >>),
      CodeChange(<<"s","r","c","/","b",".","j","s">>, 1, 0, << <<"r","e","n","d","e","r">> >>),
      CodeChange(<<"l","i","b","/","c",".","j","s">>, 0, 1, <<>>) }

\* All lists of at most n distinct changes
RECURSIVE ChangeLists(_)
ChangeLists(n) ==
    IF n = 0 THEN { <<>> }
    ELSE ChangeLists(n - 1) \cup
         { Append(lc[1], lc[2]) :
             lc \in { p \in ChangeLists(n - 1) \X ChangePool :
                        /\ Len(p[1]) = n - 1
                        /\ \A i \in 1..Len(p[1]) : p[1][i] # p[2] } }

CodeChangeLists == ChangeLists(MaxChanges)

\* The file listings of the repositories: at most MaxRepoFiles pool files,
\* in the pool's order
Repositories ==
    { LET nth(k) == CHOOSE i \in chosen : Cardinality({ j \in chosen : j < i }) = k - 1
      IN  [k \in 1..Cardinality(chosen) |-> RepoFilePool[nth(k)]] :
        chosen \in { c \in SUBSET (1..Len(RepoFilePool)) : Cardinality(c) <= MaxRepoFiles } }

\* request.prData of an analyzeTests message, with and without repository
AnalyzeRequests ==
    { [platform |-> "github", repository |-> "owner/repo", prNumber |-> 1],
      [platform |-> "github", prNumber |-> 1] }

\* The part of getDefaultConfig the analysis could read
getDefaultConfig == [coverageThreshold |-> 80, maxTestsToRun |-> 50]

InitAnalyzer ==
    /\ pc = "idle"
    /\ prData = NoValue
    /\ analysis = NoValue
    /\ history = <<>>
    /\ config = getDefaultConfig
    /\ codeChanges = NoValue
    /\ repoStructure = NoValue
    /\ existingTestFiles = NoValue
    /\ requests = <<>>
    /\ services = NoValue
    /\ storage = NoValue
    /\ clock = 0
    /\ monitor = NoValue

\* analyzeTests(request.prData, request.codeChanges) with prData.repository
\* missing: the throw, the catch, the mock result
AnalyzeTestsInvalid ==
    /\ pc = "idle"
    /\ \E data \in AnalyzeRequests, changes \in CodeChangeLists :
           /\ "repository" \notin DOMAIN data
           /\ prData' = data
           /\ codeChanges' = changes
    /\ analysis' = getMockAnalysisResult @@
                   [error |-> "Invalid PR data: missing repository information"]
    /\ pc' = "analyzed"
    /\ UNCHANGED <<history, config, repoStructure, existingTestFiles, controllerVars, monitor>>

\* analyzeTests up to its first await: an empty codeChanges is replaced by
\* the default change
AnalyzeTestsStart ==
    /\ pc = "idle"
    /\ \E data \in AnalyzeRequests, changes \in CodeChangeLists :
           /\ "repository" \in DOMAIN data
           /\ prData' = data
           /\ codeChanges' = IF Len(changes) = 0
                             THEN << [fileName          |-> <<"s","r","c","/","m","a","i","n",".","j","s">>,
                                      fileExtension     |-> <<"j","s">>,
                                      changeType        |-> "modified",
                                      modifiedFunctions |-> << <<"m","a","i","n">>, <<"i","n","i","t">> >>,
                                      addedLines        |-> <<>>,
                                      removedLines      |-> <<>>] >>
                             ELSE changes
    /\ pc' = "started"
    /\ UNCHANGED <<analysis, history, config, repoStructure, existingTestFiles, controllerVars, monitor>>

\* await this.getRepositoryStructure(prData); a failed fetch is { files: [] }
GetRepositoryStructure ==
    /\ pc = "started"
    /\ \E files \in Repositories :
           repoStructure' = [files |-> files, directories |-> <<>>]
    /\ pc' = "structured"
    /\ UNCHANGED <<prData, analysis, history, config, codeChanges, existingTestFiles, controllerVars, monitor>>

\* await this.findExistingTests(repoStructure, prData)
FindExistingTests ==
    /\ pc = "structured"
    /\ existingTestFiles' = findExistingTests(repoStructure)
    /\ pc' = "found"
    /\ UNCHANGED <<prData, analysis, history, config, codeChanges, repoStructure, controllerVars, monitor>>

\* identifyRelevantTests, generateTestSuggestions, analyzeCoverage, result
CompleteAnalysis ==
    /\ pc = "found"
    /\ analysis' = analysisResult(prData, codeChanges, existingTestFiles)
    /\ pc' = "analyzed"
    /\ UNCHANGED <<prData, history, config, codeChanges, repoStructure, existingTestFiles, controllerVars, monitor>>

\* sendResponse(analysisResult): the handler's locals are gone
SendResponse ==
    /\ pc = "analyzed"
    /\ pc' = "idle"
    /\ prData' = NoValue
    /\ analysis' = NoValue
    /\ codeChanges' = NoValue
    /\ repoStructure' = NoValue
    /\ existingTestFiles' = NoValue
    /\ UNCHANGED <<history, config, controllerVars, monitor>>

NextAnalyzer ==
    \/ AnalyzeTestsInvalid
    \/ AnalyzeTestsStart
    \/ GetRepositoryStructure
    \/ FindExistingTests
    \/ CompleteAnalysis
    \/ SendResponse

SpecAnalyzer == InitAnalyzer /\ [][NextAnalyzer]_vars

----------------------------------------------------------------------------------------------------------------------------------------------------
(* TestAnalyzer.monitorBuild: the status of a build is checked every       *)
(* checkInterval until the build is complete, a check fails or maxChecks   *)
(* checks are done.                                                        *)

\* const maxChecks = 60
maxChecks == 60

InitMonitor ==
    /\ pc = "idle"
    /\ prData = NoValue
    /\ analysis = NoValue
    /\ history = <<>>
    /\ config = getDefaultConfig
    /\ codeChanges = NoValue
    /\ repoStructure = NoValue
    /\ existingTestFiles = NoValue
    /\ requests = <<>>
    /\ services = NoValue
    /\ storage = NoValue
    /\ clock = 0
    /\ monitor = NoValue

\* monitorBuild(prData, buildNumber): let checks = 0;
\* setTimeout(monitor, checkInterval)
MonitorBuild ==
    /\ monitor = NoValue
    /\ monitor' = [pc           |-> "waiting",
                   checks       |-> 0,
                   timer        |-> TRUE,
                   statusChecks |-> 0,
                   posts        |-> 0,
                   outcome      |-> "running"]
    /\ UNCHANGED <<pc, prData, analysis, history, config, analyzerVars, controllerVars>>

\* The timer fires: monitor() runs up to await this.checkPipelineStatus
TimerFires ==
    /\ monitor # NoValue
    /\ monitor.timer
    /\ monitor' = [monitor EXCEPT !.timer = FALSE,
                                  !.pc = "checking",
                                  !.statusChecks = @ + 1]
    /\ UNCHANGED <<pc, prData, analysis, history, config, analyzerVars, controllerVars>>

\* Rescheduled with the comparison checks <= maxChecks
Rescheduled_untilEqual(checks) ==
    checks <= maxChecks

\* setTimeout(monitor, checkInterval) when checks < maxChecks
Rescheduled(checks) ==
    checks < maxChecks

\* checkPipelineStatus resolves with isComplete false: checks++, and the
\* next check is scheduled while checks < maxChecks
StatusRunning ==
    /\ monitor # NoValue
    /\ monitor.pc = "checking"
    /\ monitor' = [monitor EXCEPT !.checks = @ + 1,
                                  !.timer = Rescheduled(monitor.checks + 1),
                                  !.pc = IF Rescheduled(monitor.checks + 1) THEN "waiting" ELSE "stopped",
                                  !.outcome = IF Rescheduled(monitor.checks + 1) THEN "running" ELSE "gave up"]
    /\ UNCHANGED <<pc, prData, analysis, history, config, analyzerVars, controllerVars>>

\* checkPipelineStatus resolves with isComplete true: monitor() runs up to
\* await this.postResultsToPR(prData, status)
StatusComplete ==
    /\ monitor # NoValue
    /\ monitor.pc = "checking"
    /\ monitor' = [monitor EXCEPT !.pc = "posting", !.posts = @ + 1, !.outcome = "complete"]
    /\ UNCHANGED <<pc, prData, analysis, history, config, analyzerVars, controllerVars>>

\* checkPipelineStatus throws (the fetch rejects, the answer is not ok):
\* the catch of monitor() does nothing
StatusCheckFails ==
    /\ monitor # NoValue
    /\ monitor.pc = "checking"
    /\ monitor' = [monitor EXCEPT !.pc = "stopped", !.outcome = "check failed"]
    /\ UNCHANGED <<pc, prData, analysis, history, config, analyzerVars, controllerVars>>

\* postResultsToPR resolves (it catches the error of a failed post): return
ResultsPosted ==
    /\ monitor # NoValue
    /\ monitor.pc = "posting"
    /\ monitor' = [monitor EXCEPT !.pc = "stopped"]
    /\ UNCHANGED <<pc, prData, analysis, history, config, analyzerVars, controllerVars>>

NextMonitor ==
    \/ MonitorBuild
    \/ TimerFires
    \/ StatusRunning
    \/ StatusComplete
    \/ StatusCheckFails
    \/ ResultsPosted

SpecMonitor == InitMonitor /\ [][NextMonitor]_vars

\* The timer fires when its interval is over, and the requests that
\* checkPipelineStatus and postResultsToPR wait for are answered or fail
SpecMonitorFair ==
    /\ SpecMonitor
    /\ WF_vars(MonitorBuild)
    /\ WF_vars(TimerFires)
    /\ WF_vars(StatusRunning \/ StatusComplete \/ StatusCheckFails)
    /\ WF_vars(ResultsPosted)

----
(* Properties of the analysis result                                       *)

\* An answer of a non-empty pull request is in hand
Analyzed == pc = "analyzed" /\ Len(prData.changedFiles) > 0

\* The spec's origin of a candidate: the service calls a candidate whose file
\* is among the changed files "existing" or "related", and "suggested" otherwise
Origin(t) == IF t.type = "suggested" THEN "suggested" ELSE "existing"

Present(path) == \E i \in 1..Len(prData.changedFiles) : prData.changedFiles[i].filename = path

\* C1: for every changed-file list the coverage estimate and the risk score
\* of the result are integers between 0 and 100
C1_CoverageAndRiskWithin0And100 ==
    pc = "analyzed" =>
        /\ analysis.coverage \in 0..100
        /\ "riskAnalysis" \in DOMAIN analysis => analysis.riskAnalysis.totalRisk \in 0..100

\* C2: an empty changed-file list yields identifiedTests = [], coverage = 100,
\* risk score = 0 and recommendations = []
C2_EmptyInputGivesDegenerateResult ==
    (pc = "analyzed" /\ Len(prData.changedFiles) = 0) =>
        /\ analysis.identifiedTests = <<>>
        /\ analysis.coverage = 100
        /\ "riskAnalysis" \in DOMAIN analysis /\ analysis.riskAnalysis.totalRisk = 0
        /\ analysis.recommendations = <<>>

\* C3: no two entries of identifiedTests have the same test path and the same
\* origin
C3_NoTwoCandidatesShareAPathAndOrigin ==
    pc = "analyzed" =>
        \A i, j \in 1..Len(analysis.identifiedTests) :
            i < j => ~ /\ analysis.identifiedTests[i].path = analysis.identifiedTests[j].path
                       /\ Origin(analysis.identifiedTests[i]) = Origin(analysis.identifiedTests[j])

\* A path one of whose segments is on the ignore list
UnderIgnoredSegment(path) ==
    \E i \in 1..Len(Split(path, "/")) : Split(path, "/")[i] \in ignoredPaths

\* C4: a path under an ignore-listed segment is never among the identified
\* tests as a test file
C4_IgnoredPathIsNeverATest ==
    Analyzed =>
        \A i \in 1..Len(analysis.existingTests) :
            ~UnderIgnoredSegment(analysis.existingTests[i].path)

\* C5: when some path of the batch matches a strict test glob, every path
\* classified as a test matches a strict test glob (none is a test through
\* the keyword fallback)
C5_NoFallbackWhenAStrictMatchExists ==
    Analyzed =>
        ((\E i \in 1..Len(prData.changedFiles) : matchesTestPattern[prData.changedFiles[i].filename])
            => \A i \in 1..Len(analysis.existingTests) :
                   matchesTestPattern[analysis.existingTests[i].path])

\* The roles the result gives a path: test when it is among the existing
\* tests, source when it is among the source files, ignored when it is in neither
RolesOf(path) ==
    { role \in {"test", "source", "ignored"} :
        LET isTest   == \E i \in 1..Len(analysis.existingTests) : analysis.existingTests[i].path = path
            isSource == \E i \in 1..Len(analysis.sourceFiles) : analysis.sourceFiles[i].path = path
        IN  \/ role = "test" /\ isTest
            \/ role = "source" /\ isSource
            \/ role = "ignored" /\ ~isTest /\ ~isSource }

\* C6: every changed path has exactly one of the roles test, source, ignored
C6_EveryPathHasExactlyOneRole ==
    Analyzed =>
        \A i \in 1..Len(prData.changedFiles) :
            Cardinality(RolesOf(prData.changedFiles[i].filename)) = 1

\* C6 witness: a result in which all three roles occur
C6_Witness ==
    /\ Analyzed
    /\ \A role \in {"test", "source", "ignored"} :
           \E i \in 1..Len(prData.changedFiles) : RolesOf(prData.changedFiles[i].filename) = {role}

\* The source file has a candidate that exists among the changed files
HasExistingCandidate(sourcePath) ==
    \E i \in 1..Len(analysis.relatedTests) :
        /\ analysis.relatedTests[i].sourceFile = sourcePath
        /\ Origin(analysis.relatedTests[i]) = "existing"

\* C8: the recommendations hold one missing-test entry for each changed
\* source file without an existing-origin candidate, and none for the others
C8_OneRecommendationPerUntestedSourceFile ==
    Analyzed =>
        \A i \in 1..Len(analysis.sourceFiles) :
            LET path    == analysis.sourceFiles[i].path
                entries == { k \in 1..Len(analysis.recommendations) :
                                /\ analysis.recommendations[k].type = "missing_test"
                                /\ analysis.recommendations[k].file = path }
            IN  IF HasExistingCandidate(path)
                THEN entries = {}
                ELSE Cardinality(entries) = 1

\* C9: each generated candidate path of a changed source file that is among
\* the changed files is an identified test of existing origin, with
\* confidence 0.90 and linked to that source file
C9_PresentCandidateIsExistingWithConfidence90 ==
    Analyzed =>
        \A i \in 1..Len(analysis.sourceFiles) :
            LET path == analysis.sourceFiles[i].path
            IN  \A k \in 1..Len(generateTestPaths[path]) :
                    Present(generateTestPaths[path][k]) =>
                        \E n \in 1..Len(analysis.identifiedTests) :
                            LET t == analysis.identifiedTests[n]
                            IN  /\ t.path = generateTestPaths[path][k]
                                /\ Origin(t) = "existing"
                                /\ t.confidence = 90
                                /\ "sourceFile" \in DOMAIN t /\ t.sourceFile = path

\* C9 witness: src/user.js changed together with src/user.test.js
C9_Witness ==
    /\ Analyzed
    /\ \E i \in 1..Len(analysis.sourceFiles) : analysis.sourceFiles[i].path = <<"s","r","c","/","u","s","e","r",".","j","s">>
    /\ Present(<<"s","r","c","/","u","s","e","r",".","t","e","s","t",".","j","s">>)
    /\ \E n \in 1..Len(analysis.identifiedTests) :
           /\ analysis.identifiedTests[n].path = <<"s","r","c","/","u","s","e","r",".","t","e","s","t",".","j","s">>
           /\ analysis.identifiedTests[n].type = "related"
           /\ analysis.identifiedTests[n].confidence = 90

\* C10: identifiedTests is the list of candidates in discovery order (the
\* existing tests, then the related and suggested ones) sorted by confidence,
\* descending, entries of equal confidence keeping their discovery order
C10_SortedByConfidenceDescending ==
    Analyzed =>
        /\ \A i, j \in 1..Len(analysis.identifiedTests) :
               i < j => analysis.identifiedTests[i].confidence >= analysis.identifiedTests[j].confidence
        /\ LET found == analysis.existingTests \o analysis.relatedTests
           IN  analysis.identifiedTests =
                   SortDescending(found, [i \in 1..Len(found) |-> found[i].confidence])

\* C11: the number of identified tests of a result never exceeds the
\* configured maxTestsToRun
C11_IdentifiedTestsWithinConfiguredMaximum ==
    pc = "analyzed" => Len(analysis.identifiedTests) <= config.analysis.maxTestsToRun

\* A path that is empty or contains '..'
Malformed(path) == path = <<>> \/ Includes(path, <<".",".">>)

InExistingTests(path) ==
    \E i \in 1..Len(analysis.existingTests) : analysis.existingTests[i].path = path

InSourceFiles(path) ==
    \E i \in 1..Len(analysis.sourceFiles) : analysis.sourceFiles[i].path = path

\* C12: once the analysis of a fetched pull request has run, it has not
\* thrown, and a changed file with a malformed path is neither among the test
\* files nor among the source files of the result
C12_MalformedPathIsSkippedNotFatal ==
    (pc \in {"analyzed", "failed"} /\ DOMAIN prData # {}) =>
        /\ pc = "analyzed"
        /\ \A i \in 1..Len(prData.changedFiles) :
               Malformed(prData.changedFiles[i].filename) =>
                   /\ ~InExistingTests(prData.changedFiles[i].filename)
                   /\ ~InSourceFiles(prData.changedFiles[i].filename)

\* A path whose extension belongs to no language profile and that no
\* profile's test glob accepts
MatchesNoProfile(path) == detectLanguage[path] = "unknown" /\ ~matchesTestPattern[path]

\* C13: a changed file that matches no language profile is neither among the
\* source files nor among the test files of the result
C13_UnknownLanguageFileIsExcluded ==
    Analyzed =>
        \A i \in 1..Len(prData.changedFiles) :
            MatchesNoProfile(prData.changedFiles[i].filename) =>
                /\ ~InExistingTests(prData.changedFiles[i].filename)
                /\ ~InSourceFiles(prData.changedFiles[i].filename)

\* The suggested candidates the result holds for a source file
SuggestedFor(sourcePath) ==
    { k \in 1..Len(analysis.relatedTests) :
        /\ analysis.relatedTests[k].sourceFile = sourcePath
        /\ analysis.relatedTests[k].type = "suggested" }

\* C14: a source file has a suggested candidate exactly when it has no
\* existing one; then it has one, with the generator's first path and
\* confidence 0.60
C14_SuggestedExactlyWhenNoExistingTest ==
    Analyzed =>
        \A i \in 1..Len(analysis.sourceFiles) :
            LET path == analysis.sourceFiles[i].path
            IN  IF HasExistingCandidate(path)
                THEN SuggestedFor(path) = {}
                ELSE /\ Cardinality(SuggestedFor(path)) = 1
                     /\ \A k \in SuggestedFor(path) :
                            /\ analysis.relatedTests[k].path = generateTestPaths[path][1]
                            /\ analysis.relatedTests[k].confidence = 60

\* The candidate paths as the templates name them, for a source path
\* <dir>/<name>.<ext> with file name <file>
TemplatePaths(sourcePath) ==
    LET segments == Split(sourcePath, "/")
        file     == segments[Len(segments)]
        dir      == Join(SubSeq(segments, 1, Len(segments) - 1), <<"/">>)
        pieces   == Split(file, ".")
        name     == Join(SubSeq(pieces, 1, Len(pieces) - 1), <<".">>)
        ext      == pieces[Len(pieces)]
        srcAt    == { i \in 1..Len(segments) : segments[i] = <<"s","r","c">> }
        leftmost == CHOOSE i \in srcAt : \A k \in srcAt : i <= k
    IN  << dir \o <<"/">> \o name \o <<".","t","e","s","t",".">> \o ext,
           dir \o <<"/">> \o name \o <<".","s","p","e","c",".">> \o ext,
           dir \o <<"/","_","_","t","e","s","t","s","_","_","/">> \o file,
           dir \o <<"/","_","_","t","e","s","t","s","_","_","/">> \o name \o <<".","t","e","s","t",".">> \o ext,
           dir \o <<"/","t","e","s","t","s","/">> \o file,
           dir \o <<"/","t","e","s","t","/">> \o file >>
        \o (IF srcAt = {} THEN <<>>
            ELSE << Join([segments EXCEPT ![leftmost] = <<"t","e","s","t">>], <<"/">>),
                    Join([segments EXCEPT ![leftmost] = <<"t","e","s","t","s">>], <<"/">>) >>)

\* C16: for every changed source file the generator returns the template
\* paths in their order, and none of them begins with '/'
C16_GeneratedPathsInOrderAndRepoRelative ==
    Analyzed =>
        \A i \in 1..Len(analysis.sourceFiles) :
            LET paths == generateTestPaths[analysis.sourceFiles[i].path]
            IN  /\ paths = TemplatePaths(analysis.sourceFiles[i].path)
                /\ \A k \in 1..Len(paths) : Len(paths[k]) > 0 /\ paths[k][1] # "/"

\* A path segment matches a pattern segment: '*' stands for any run of
\* characters of the segment, every other character for itself
RECURSIVE SegmentMatches(_, _, _, _)
SegmentMatches(pat, i, seg, j) ==
    IF i > Len(pat) THEN j > Len(seg)
    ELSE IF pat[i] = "*"
         THEN \E k \in j..(Len(seg) + 1) : SegmentMatches(pat, i + 1, seg, k)
         ELSE j <= Len(seg) /\ seg[j] = pat[i] /\ SegmentMatches(pat, i + 1, seg, j + 1)

\* The path segments from j on match the pattern segments from i on: '**'
\* stands for any number of whole segments, zero included
RECURSIVE SegmentsMatch(_, _, _, _)
SegmentsMatch(pats, i, segs, j) ==
    IF i > Len(pats) THEN j > Len(segs)
    ELSE IF pats[i] = <<"*","*">>
         THEN \E k \in j..(Len(segs) + 1) : SegmentsMatch(pats, i + 1, segs, k)
         ELSE /\ j <= Len(segs)
              /\ SegmentMatches(pats[i], 1, segs[j], 1)
              /\ SegmentsMatch(pats, i + 1, segs, j + 1)

\* The glob accepts the path
GlobMatches(glob, path) == SegmentsMatch(Split(glob, "/"), 1, Split(path, "/"), 1)

\* For the path, every registry pattern's compiled matcher accepts it exactly
\* when the glob does
compiledAgreesWithGlob ==
    [filename \in Filenames |->
        \A l \in 1..Len(TEST_PATTERNS) :
            \A p \in 1..Len(TEST_PATTERNS[l].patterns) :
                RegexTest(_globToRegex(TEST_PATTERNS[l].patterns[p]), filename)
                    <=> GlobMatches(TEST_PATTERNS[l].patterns[p], filename)]

\* C17: on every changed path, each registry pattern's compiled matcher
\* accepts exactly when the glob accepts
C17_CompiledMatcherAgreesWithGlob ==
    Analyzed =>
        \A i \in 1..Len(prData.changedFiles) : compiledAgreesWithGlob[prData.changedFiles[i].filename]

\* C18: the coverage is round(covered / total * 100), covered being the
\* number of source files with an existing-origin candidate, and 100 when
\* no changed file is a source file
C18_CoverageCountsDistinctCoveredSourceFiles ==
    Analyzed =>
        LET total   == Len(analysis.sourceFiles)
            covered == Cardinality({ i \in 1..total : HasExistingCandidate(analysis.sourceFiles[i].path) })
        IN  analysis.coverage = IF total = 0 THEN 100 ELSE MathRound(covered * 100, total)

\* The per-file risk: 30, 20 or 10 by the changed-line count, plus 10 when
\* the file is neither a test file nor a source file with an existing test
ExpectedFileRisk(file) ==
    LET lines == FileRisk(file).changes
        base  == IF lines > 100 THEN 30 ELSE IF lines > 50 THEN 20 ELSE IF lines > 10 THEN 10 ELSE 0
    IN  base + (IF ~InExistingTests(file.filename) /\ ~HasExistingCandidate(file.filename)
                THEN 10 ELSE 0)

RECURSIVE SumExpectedFileRisk(_)
SumExpectedFileRisk(files) ==
    IF Len(files) = 0 THEN 0
    ELSE ExpectedFileRisk(Head(files)) + SumExpectedFileRisk(Tail(files))

\* C20: the risk score is the rounded mean of the per-file risks, clamped
\* to 0..100
C20_RiskIsRoundedMeanOfPerFileRisk ==
    Analyzed =>
        analysis.riskAnalysis.totalRisk =
            Min(MathRound(SumExpectedFileRisk(prData.changedFiles), Len(prData.changedFiles)), 100)

----------------------------------------------------------------------------
(* Properties of the result of TestAnalyzer.analyzeTests                   *)

\* analyzeTests has built its result from the repository's test files
AnalyzerAnalyzed == pc = "analyzed" /\ "source" \in DOMAIN analysis

\* The candidates identifyRelevantTests pushed before removing duplicates
PushedCandidates == RelevantTestsOfAll(codeChanges, existingTestFiles)

\* C15: when several candidates share the same test path, the one kept by
\* the deduplication has the maximum confidence of the candidates of that
\* path, not merely the confidence of the first candidate found.
C15_DeduplicationKeepsMaximumConfidence ==
    AnalyzerAnalyzed =>
        \A i \in 1..Len(analysis.identifiedTests) :
            \A j \in 1..Len(PushedCandidates) :
                PushedCandidates[j].fileName = analysis.identifiedTests[i].fileName
                    => PushedCandidates[j].confidence <= analysis.identifiedTests[i].confidence

\* C19: the bonus min(20, 5 * (testCount - sourceCount)) is added to the
\* ratio-based coverage, and the sum capped at 95, exactly when the matched
\* tests outnumber the changed files; with as many tests as changed files
\* the coverage is 100, with neither bonus nor cap.
C19_BonusAndCapOnlyWhenTestsOutnumberFiles ==
    AnalyzerAnalyzed =>
        LET testCount   == Len(analysis.identifiedTests)
            sourceCount == Len(codeChanges)
            ratio       == MathRound(Min(testCount, sourceCount) * 100, sourceCount)
        IN  /\ testCount > sourceCount
                => analysis.coverage.estimated
                       = Min(95, ratio + Min(20, 5 * (testCount - sourceCount)))
            /\ testCount <= sourceCount => analysis.coverage.estimated = ratio
            /\ testCount = sourceCount => analysis.coverage.estimated = 100

\* Two matched tests for one changed file: the bonus applies and the sum is capped
C19_Witness ==
    /\ AnalyzerAnalyzed
    /\ Len(codeChanges) = 1
    /\ Len(analysis.identifiedTests) = 2
    /\ analysis.coverage.estimated = 95

\* The code change and the test of some pair have this confidence
SomePairScores(score) ==
    \E i \in 1..Len(codeChanges), j \in 1..Len(existingTestFiles) :
        confidenceOf(codeChanges[i].fileName, existingTestFiles[j]) = score

\* C22: a (changed file, test file) pair is kept exactly when its score is
\* strictly above 30: a test is among the identified tests exactly when it
\* scores above 30 with some changed file, every identified test carries the
\* score of its own pair, and that score is above 30 and at most 100.
C22_PairKeptExactlyWhenScoreAbove30 ==
    AnalyzerAnalyzed =>
        /\ \A j \in 1..Len(existingTestFiles) :
               (\E k \in 1..Len(analysis.identifiedTests) :
                    analysis.identifiedTests[k].fileName = existingTestFiles[j].fileName)
               <=> (\E i \in 1..Len(codeChanges) :
                       confidenceOf(codeChanges[i].fileName, existingTestFiles[j]) > 30)
        /\ \A k \in 1..Len(analysis.identifiedTests) :
               LET kept == analysis.identifiedTests[k]
               IN  /\ kept.confidence > 30
                   /\ kept.confidence <= 100
                   /\ \E i \in 1..Len(codeChanges), j \in 1..Len(existingTestFiles) :
                          /\ codeChanges[i].fileName = kept.relatedFile
                          /\ existingTestFiles[j].fileName = kept.fileName
                          /\ confidenceOf(kept.relatedFile, existingTestFiles[j]) = kept.confidence

\* A pair scoring 0 was discarded and a pair with the lowest score, 60, kept
C22_Witness ==
    /\ AnalyzerAnalyzed
    /\ SomePairScores(0)
    /\ \E k \in 1..Len(analysis.identifiedTests) : analysis.identifiedTests[k].confidence = 60
    /\ \E j \in 1..Len(existingTestFiles) :
           \A k \in 1..Len(analysis.identifiedTests) :
               analysis.identifiedTests[k].fileName # existingTestFiles[j].fileName

----------------------------------------------------------------------------
(* Properties of the controller's message handlers                         *)

\* The handler of message i returns in this step, with this answer
AnswersNow(i, action, success) ==
    /\ i <= Len(requests')
    /\ requests'[i].action = action
    /\ requests'[i].pc = "answered"
    /\ requests'[i].response.success = success
    /\ (i > Len(requests) \/ requests[i].pc # "answered")

\* Message i was handled by this action and is answered
Answered(i, action) == requests[i].action = action /\ requests[i].pc = "answered"

\* C23: once a CLEAR_HISTORY request has answered success, the history that
\* saveToHistory writes and reads is empty: no entry saved before the clear
\* is read afterwards.
C23_HistoryEmptyAfterClearAnswersSuccess ==
    [][\A i \in 1..Len(requests') :
           AnswersNow(i, "clearHistory", TRUE) => history' = <<>>]_vars

\* C24: when two ANALYZE_PR requests are handled concurrently and both
\* answer success, the stored history holds the entry of each of them.
C24_NoHistoryEntryLostByInterleaving ==
    \A i \in 1..Len(requests) :
        (Answered(i, "analyzePR") /\ requests[i].response.success)
            => \E k \in 1..Len(history) : history[k] = requests[i].entry

\* The submitted configurations that validateConfig has to turn down
ConfigsFailingValidation ==
    { cfg \in SubmittedConfigs :
        \/ cfg.analysis.coverageThreshold > 100
        \/ cfg.github.token = <<"s","h","o","r","t">>
        \/ cfg.jenkins.url = <<"j","e","n","k","i","n","s">> }

\* C26: a SAVE_CONFIG request whose configuration fails validation answers
\* success: false with the validation errors, and leaves the current config,
\* the three service instances and the persisted configuration unchanged.
C26_InvalidConfigIsAnsweredAndChangesNothing ==
    [][\A i \in 1..Len(requests') :
           (/\ i > Len(requests)
            /\ requests'[i].action = "saveConfig"
            /\ requests'[i].data.config \in ConfigsFailingValidation)
           => /\ requests'[i].pc = "answered"
              /\ requests'[i].response.success = FALSE
              /\ Len(requests'[i].response.errors) > 0
              /\ UNCHANGED <<config, services, storage>>]_vars

\* A configuration out of range was turned down after another one had been
\* saved, which is still the one in use and the one persisted
C26_Witness ==
    \E i, j \in 1..Len(requests) :
        /\ Answered(i, "saveConfig") /\ requests[i].response.success
        /\ Answered(j, "saveConfig") /\ ~requests[j].response.success
        /\ requests[j].data.config \in ConfigsFailingValidation
        /\ config = requests[i].data.config
        /\ services = initializeServices(requests[i].data.config)
        /\ storage.sync[STORAGE_KEYS.CONFIG] = requests[i].data.config

\* cfg is what chrome.storage.sync holds as the configuration
Persisted(area, cfg) ==
    STORAGE_KEYS.CONFIG \in DOMAIN area.sync /\ area.sync[STORAGE_KEYS.CONFIG] = cfg

\* C27: a SAVE_CONFIG request answers success: true and switches the
\* in-memory config only if the configuration was persisted; when the
\* storage write fails the answer is success: false and the in-memory config
\* and the services are unchanged.
C27_SuccessOnlyWhenConfigPersisted ==
    [][\A i \in 1..Len(requests') :
           /\ AnswersNow(i, "saveConfig", TRUE) => Persisted(storage', requests'[i].data.config)
           /\ (/\ i <= Len(requests)
               /\ requests[i].action = "saveConfig"
               /\ requests[i].pc = "storing"
               /\ requests'[i].pc = "answered"
               /\ ~Persisted(storage', requests[i].data.config))
              => /\ requests'[i].response.success = FALSE
                 /\ UNCHANGED <<config, services>>]_vars

\* C28: within one ANALYZE_PR run the fetch and the analysis use service
\* instances built from the same configuration, also when a SAVE_CONFIG
\* request is handled while the fetch is pending.
C28_FetchAndAnalysisUseSameConfiguration ==
    \A i \in 1..Len(requests) :
        (requests[i].action = "analyzePR" /\ "testService" \in DOMAIN requests[i])
            => requests[i].testService.config = requests[i].gitService.config

C25_HistoryKeepsTheLatest100NewestFirst ==
    /\ Len(history) = Min(clock, HistoryLimit)
    /\ Len(history) <= 100
    /\ \A k \in 1..Len(history) : history[k].timestamp = clock - k

\* The 101st entry is saved: the entry saved first (timestamp 0) is gone,
\* the one saved second is the last of the 100
C25_Witness ==
    /\ pc = "idle"
    /\ clock = 101
    /\ Len(history) = 100
    /\ history[1].timestamp = 100
    /\ history[100].timestamp = 1

----------------------------------------------------------------------------
(* Properties of TestAnalyzer.monitorBuild                                 *)

\* monitorBuild has stopped: no check is pending and none is scheduled
MonitorStopped == monitor # NoValue /\ monitor.pc = "stopped" /\ ~monitor.timer

\* At most 60 status checks; at most one post, and only after a check
\* reported the build complete; no check is scheduled once the build is
\* complete, a check has failed or the 60th check is done
MonitorBounded ==
    monitor # NoValue =>
        /\ monitor.statusChecks <= 60
        /\ monitor.posts <= 1
        /\ monitor.posts = 1 <=> monitor.outcome = "complete"
        /\ monitor.timer => /\ monitor.outcome = "running"
                            /\ monitor.statusChecks < 60
        /\ monitor.outcome \in { "complete", "check failed", "gave up" }
               => /\ ~monitor.timer
                  /\ monitor.pc \in { "posting", "stopped" }
        /\ monitor.outcome = "gave up" <=> (monitor.statusChecks = 60 /\ monitor.checks = 60)

\* C30: monitorBuild always stops: at most 60 status checks, the results
\* posted at most once and only after a check reported the build complete,
\* and no further check scheduled after completion, after a failed check or
\* after the 60th check.
C30_MonitorBuildAlwaysStops ==
    /\ []MonitorBounded
    /\ <>[]MonitorStopped

\* The build never completed: the 60th check was the last one
C30_Witness ==
    /\ MonitorStopped
    /\ monitor.statusChecks = 60
    /\ monitor.outcome = "gave up"
    /\ monitor.posts = 0

====
